---- MODULE Spec2Model ----
(***************************************************************************)
(* Training loop and checkpoint lifecycle of paxml.                        *)
(*                                                                         *)
(* The loop is _train_and_evaluate_common (executors.py 378-607; the older *)
(* copy in train.py 993-1185 is the same loop without the preemption       *)
(* check, i.e. the case exit_after_ondemand_checkpoint = FALSE).  The      *)
(* checkpointers are _OrbaxPjitTrainingCheckpointer and                    *)
(* _OrbaxPmapTrainingCheckpointer (train.py 166-377).  The checkpoint      *)
(* manager, the train program and the early-stopping policy live outside   *)
(* these files; they are modelled at their documented contract.            *)
(*                                                                         *)
(* A TrainState is the record [step, mdl_vars]: its step counter and an     *)
(* abstract value of its variables, which each train_program.run changes.  *)
(* The pjit checkpointer handles the TrainState itself, the pmap           *)
(* checkpointer a replicated one, with one copy per local device.          *)
(*                                                                         *)
(* Specifications:                                                         *)
(*   Spec      the loop of one run, over the checkpointing, stopping and   *)
(*             preemption options;                                         *)
(*   SpecLive  the same loop under the fairness of its two threads;        *)
(*   SpecCkpt  a job on a checkpoint directory: get_model_states, the      *)
(*             loop, and a restart on the directory the job left;          *)
(*   SpecNoSave the same job with checkpoint saving disabled;              *)
(*   SpecEntry the setup statements of the three entry paths, then the     *)
(*             loop;                                                       *)
(*   SpecSched the loop over every eval and decode schedule;               *)
(*   SpecRng   an entry point from the random seed to the train, eval and  *)
(*             decode keys, then the loop and a restart;                   *)
(*   SpecDur   _create_checkpointer over every duration string;            *)
(*   SpecType  _create_checkpointer over every checkpoint type;            *)
(*   SpecProcs the processes of one job from _make_checkpoint_dir to       *)
(*             their first train step.                                     *)
(***************************************************************************)
EXTENDS Integers, FiniteSets, Sequences, TLC

\* ---- bounds ----
MaxTrainSteps == 2      \* num_train_steps ranges over 0..MaxTrainSteps
MaxInitStep == 2        \* a restored run starts at a step in 0..MaxInitStep
MaxInterval == 2        \* interval options range up to MaxInterval
MaxStepsPerRun == 2     \* one train_program.run advances the step by 1..MaxStepsPerRun
LocalDeviceCount == 2   \* jax.local_device_count() of the modelled host
MaxInitKey == 1         \* init keys range over 0..MaxInitKey
MaxToKeep == 2          \* save_max_to_keep ranges over None and 1..MaxToKeep
MaxRestarts == 1        \* a job is restarted on its directory at most MaxRestarts times
MaxLen == 4             \* duration strings have at most MaxLen characters
NumProcesses == 2       \* jax.process_count()

\* latest_step() of a manager without checkpoints (Python None)
None == -1

VARIABLES
  \* configuration, fixed for a run
  variant,                         \* "pjit" | "pmap": checkpointer class chosen at construction
  enable_checkpoint_saving,
  pmap_use_tensorstore,            \* py_utils.pmap_use_tensorstore()
  save_interval_steps,
  num_train_steps,
  eval_interval_steps,
  eval_programs,                   \* TRUE iff at least one eval program is registered
  decode_input_p,                  \* TRUE iff decode inputs are configured
  decode_interval_steps,
  decode_use_ema_states,
  has_ema,                         \* tasks_lib.has_ema(task_p)
  early_stopping_fn,               \* TRUE iff an early-stopping policy is configured
  exit_after_ondemand_checkpoint,
  steps_per_run,                   \* step increment of one train_program.run
  initial_global_step,
  \* entry
  entry_path,                      \* "executor" | "pmap" | "spmd": the function that starts the run
  eval_names_unique,               \* FALSE iff two eval programs declare the same input name
  decode_names_unique,             \* FALSE iff two decode inputs declare the same name
  step_to_restore,                 \* checkpointer.step_to_restore (executor path), or None
  save_max_to_keep,                \* train_p.save_max_to_keep, None for no limit
  save_keep_interval_duration,     \* train_p.save_keep_interval_duration: Optional[str]
  random_seed,                     \* task_p.train.random_seed
  process_index,                   \* jax.process_index()
  experiment_train_program,        \* the experiment supplies a train program
  enable_auto_sharding,            \* the caller asks for the auto SPMD partitioner
  checkpoint_type,                 \* the CheckpointType handed to _create_checkpointer
  async_checkpointer,              \* TRUE iff the caller supplies a checkpointer
  \* loop state
  pc,
  step_i,
  partitioned_train_state,
  eval_metrics,                    \* TRUE iff eval_metrics is not None
  decode_metrics,                  \* TRUE iff decode_metrics is not None
  \* checkpoint manager
  checkpoint_manager,
  \* observations of the run
  obs,
  \* the cooperating processes of a multi-process job and their shared
  \* checkpoint directory
  processes

entryparams == <<entry_path, eval_names_unique, decode_names_unique,
                 step_to_restore, save_max_to_keep,
                 save_keep_interval_duration, random_seed, process_index,
                 experiment_train_program, enable_auto_sharding,
                 checkpoint_type, async_checkpointer>>

entryvars == <<entryparams, processes>>

cfgvars == <<entryvars, variant, enable_checkpoint_saving, pmap_use_tensorstore,
             save_interval_steps,
             num_train_steps, eval_interval_steps, eval_programs,
             decode_input_p, decode_interval_steps, decode_use_ema_states,
             has_ema, early_stopping_fn, exit_after_ondemand_checkpoint,
             steps_per_run, initial_global_step>>

vars == <<cfgvars, pc, step_i, partitioned_train_state, eval_metrics,
          decode_metrics, checkpoint_manager, obs>>

\* The other processes of the job are not followed
NoProcesses == <<>>

\* ------------------------------------------------------------------------
\* TrainState
\* ------------------------------------------------------------------------

TrainState(step, mdl_vars) == [step |-> step, mdl_vars |-> mdl_vars]

\* trainer_lib.replicate_model_state: one copy per local device
replicate_model_state(train_state) ==
  [d \in 1..LocalDeviceCount |-> train_state]

\* jax.tree_map(lambda x: x[0], partitioned_train_state)
Unreplicated(partitioned) == partitioned[1]

\* jax.tree_map(convert_host_local_array_to_global_array, ...): the value of
\* the fully replicated global array
FullyReplicated(partitioned) == partitioned[1]

\* ------------------------------------------------------------------------
\* _parse_duration (train.py 87-121)
\* ------------------------------------------------------------------------

\* An Optional[str] is a record: none for Python None, else its characters.
NoDuration == [none |-> TRUE, chars |-> <<>>]

Str(chars) == [none |-> FALSE, chars |-> chars]

DigitChars == <<"0", "1", "2", "3", "4", "5", "6", "7", "8", "9">>

\* \d
Digit == {DigitChars[i] : i \in 1..Len(DigitChars)}

IsDigit(c) == c \in Digit

\* \w: a digit, a letter or the underscore
Word == Digit \cup {"s", "m", "h", "d", "x", "_"}

\* The characters duration strings are drawn from; the blank is not a \w.
Chars == {"0", "1", "5", "s", "m", "h", "d", "x", " "}

\* The length of the longest run of characters of class that starts at
\* position from of s
RunLength(s, from, class) ==
  CHOOSE k \in 0..(Len(s) - from + 1) :
    /\ \A i \in from..(from + k - 1) : s[i] \in class
    /\ k < Len(s) - from + 1 => s[from + k] \notin class

\* int(match.group(1))
RECURSIVE IntOf(_)
IntOf(digits) ==
  IF digits = <<>> THEN 0
  ELSE IntOf(SubSeq(digits, 1, Len(digits) - 1)) * 10
         + (CHOOSE i \in 1..Len(DigitChars) :
              DigitChars[i] = digits[Len(digits)]) - 1

\* The group of a pattern that took part in no match (Python None)
NoGroup == ""

\* re.compile(r'(\d+)(\w)*').match(s): the match is anchored at the start
\* only; group 1 is the leading digits, group 2 the last character that the
\* repeated (\w) consumed.
Match(s) ==
  LET n == RunLength(s, 1, Digit)
      k == RunLength(s, n + 1, Word)
  IN [matched |-> n > 0,
      group1 |-> SubSeq(s, 1, n),
      group2 |-> IF k = 0 THEN NoGroup ELSE s[n + k]]

\* Variant of UnitSeconds that counts every unit as seconds.
UnitSeconds_AllSeconds(unit) == 1

\* The multiplier chosen by the if/elif chain on match.group(2)
UnitSeconds(unit) ==
  IF unit = "m" THEN 60
  ELSE IF unit = "h" THEN 3600
  ELSE IF unit = "d" THEN 86400
  ELSE 1

\* raises is the ValueError, value the seconds of the
\* timedelta or None
_parse_duration(duration_str) ==
  IF duration_str.none \/ duration_str.chars = <<>>
  THEN [raises |-> FALSE, value |-> None]
  ELSE LET match == Match(duration_str.chars)
       IN IF ~match.matched
             \/ match.group2 \notin {NoGroup, "s", "m", "h", "d"}
          THEN [raises |-> TRUE, value |-> None]
          ELSE [raises |-> FALSE,
                value |-> IntOf(match.group1) * UnitSeconds(match.group2)]

\* ------------------------------------------------------------------------
\* Checkpoint manager (contract of spec section 4.1)
\* ------------------------------------------------------------------------

SetMax(S) == CHOOSE x \in S : \A y \in S : y <= x

\* Steps the manager knows a checkpoint for: written ones and the one being written.
KnownSteps(m) == {c.step : c \in m.checkpoints} \cup {w.step : w \in m.inflight}

latest_step(m) == IF KnownSteps(m) = {} THEN None ELSE SetMax(KnownSteps(m))

should_save(step) == step % save_interval_steps = 0

\* The n largest elements of the set of numbers S
RECURSIVE Newest(_, _)
Newest(S, n) ==
  IF n = 0 \/ S = {} THEN {}
  ELSE {SetMax(S)} \cup Newest(S \ {SetMax(S)}, n - 1)

\* Retention: the max_to_keep newest checkpoints stay, and so do those that
\* keep_time_interval preserves; max_to_keep = None keeps all.
Retained(m, ckpts) ==
  IF m.max_to_keep = None THEN ckpts
  ELSE {c \in ckpts :
          \/ c.step \in Newest({x.step : x \in ckpts}, m.max_to_keep)
          \/ c.step \in m.preserved}

\* Variant of Persisted: the write reads the loop's state when it ends.
Persisted_Live(w) ==
  IF variant = "pmap" THEN partitioned_train_state[1]
  ELSE partitioned_train_state

\* What the background write w puts in the checkpoint: the state captured
\* when the save was issued.
Persisted(w) == w.state

\* The background write w ends: ok commits the checkpoint (replacing one of
\* the same step) and applies the retention policy; the first checkpoint
\* committed after keep_time_interval has elapsed is preserved.  ~ok leaves
\* a deferred error.
FinishWrite(m, w, ok) ==
  IF ok
  THEN LET p == [m EXCEPT !.preserved =
                              IF m.interval_elapsed THEN @ \cup {w.step} ELSE @,
                          !.interval_elapsed = FALSE,
                          !.committed = @ \cup {w.step}]
       IN [p EXCEPT !.inflight = @ \ {w},
                    !.checkpoints =
                      Retained(p, {c \in @ : c.step # w.step}
                                    \cup {[step |-> w.step, state |-> Persisted(w)]})]
  ELSE [m EXCEPT !.inflight = @ \ {w},
                 !.error = TRUE,
                 !.err_call = obs.save_if_needed_calls]

\* Every outstanding write ends, each with the outcome ok.
RECURSIVE Drain(_, _)
Drain(m, ok) ==
  IF m.inflight = {} THEN m
  ELSE LET w == CHOOSE x \in m.inflight : TRUE
       IN Drain(FinishWrite(m, w, ok), ok)

\* Variant of ManagerSave that starts the new write next to the outstanding one.
ManagerSave_NoWait(m, step, state, force, ok) ==
  [m EXCEPT !.inflight = @ \cup {[step |-> step, state |-> state, force |-> force]},
            !.waits = 0,
            !.saves = @ + 1,
            !.last_save = [step |-> step, state |-> state, force |-> force]]

\* checkpoint_manager.save(step, state, force): waits for the outstanding
\* write, then captures the state and starts the new write in the background.
ManagerSave(m, step, state, force, ok) ==
  LET d == Drain(m, ok)
  IN [d EXCEPT !.inflight = @ \cup {[step |-> step, state |-> state, force |-> force]},
               !.waits = IF m.inflight # {} THEN 1 ELSE 0,
               !.saves = @ + 1,
               !.last_save = [step |-> step, state |-> state, force |-> force]]

\* checkpoint_manager.wait_until_finished()
ManagerWait(m, ok) == Drain(m, ok)

\* ------------------------------------------------------------------------
\* Training checkpointers (train.py)
\* ------------------------------------------------------------------------

\* Variant of PjitSaveWithArgs without the enable_checkpoint_saving test.
PjitSaveWithArgs_Ungated(m, step, state, force, ok) ==
  ManagerSave(m, step, state, force, ok)

\* _OrbaxPjitTrainingCheckpointer._save_with_args
PjitSaveWithArgs(m, step, state, force, ok) ==
  IF ~enable_checkpoint_saving THEN m
  ELSE ManagerSave(m, step, state, force, ok)

\* Variant of PmapSave that writes every device's copy.
PmapSave_AllReplicas(m, step, state, is_final, ok) ==
  IF ~enable_checkpoint_saving THEN m
  ELSE ManagerSave(m, step, state, is_final, ok)

\* _OrbaxPmapTrainingCheckpointer._save
PmapSave(m, step, state, is_final, ok) ==
  IF ~enable_checkpoint_saving THEN m
  ELSE IF pmap_use_tensorstore
  THEN ManagerSave(m, step, FullyReplicated(state), is_final, ok)
  ELSE ManagerSave(m, step, Unreplicated(state), is_final, ok)

CheckpointerSave(m, step, state, force, ok) ==
  IF variant = "pjit" THEN PjitSaveWithArgs(m, step, state, force, ok)
  ELSE PmapSave(m, step, state, force, ok)

\* Variant of SaveFinalMgr that also rewrites an existing checkpoint of `step`.
SaveFinalMgr_Rewrites(m, step, state, ok) ==
  IF latest_step(m) = None \/ latest_step(m) <= step
  THEN CheckpointerSave(m, step, state, TRUE, ok)
  ELSE m

\* Variant of PjitSaveFinal that saves only into an empty directory.
PjitSaveFinal_OnlyWhenEmpty(m, step, state, ok) ==
  IF latest_step(m) = None
  THEN PjitSaveWithArgs(m, step, state, TRUE, ok)
  ELSE m

\* _OrbaxPjitTrainingCheckpointer.save_final
PjitSaveFinal(m, step, state, ok) ==
  IF latest_step(m) = None \/ latest_step(m) < step
  THEN PjitSaveWithArgs(m, step, state, TRUE, ok)
  ELSE m

\* Variant of PmapSaveFinal that saves a final step like any other step.
PmapSaveFinal_Unforced(m, step, state, ok) ==
  IF latest_step(m) = None \/ latest_step(m) < step
  THEN PmapSave(m, step, state, FALSE, ok)
  ELSE m

\* _OrbaxPmapTrainingCheckpointer.save_final
PmapSaveFinal(m, step, state, ok) ==
  IF latest_step(m) = None \/ latest_step(m) < step
  THEN PmapSave(m, step, state, TRUE, ok)
  ELSE m

\* checkpointer.save_final of the checkpointer _create_checkpointer built
SaveFinalMgr(m, step, state, ok) ==
  IF variant = "pjit" THEN PjitSaveFinal(m, step, state, ok)
  ELSE PmapSaveFinal(m, step, state, ok)

\* Variant of SaveIfNeededMgr without the should_save early return.
SaveIfNeededMgr_EveryStep(m, step, state, ok) ==
  CheckpointerSave(m, step, state, FALSE, ok)

\* _OrbaxPjitTrainingCheckpointer.save_if_needed, up to the
\* check_for_errors poll
PjitSaveIfNeeded(m, step, state, ok) ==
  IF ~should_save(step) THEN m
  ELSE PjitSaveWithArgs(m, step, state, FALSE, ok)

\* _OrbaxPmapTrainingCheckpointer.save_if_needed, up to the
\* check_for_errors poll
PmapSaveIfNeeded(m, step, state, ok) ==
  IF ~should_save(step) THEN m
  ELSE PmapSave(m, step, state, FALSE, ok)

\* checkpointer.save_if_needed of the checkpointer _create_checkpointer built
SaveIfNeededMgr(m, step, state, ok) ==
  IF variant = "pjit" THEN PjitSaveIfNeeded(m, step, state, ok)
  ELSE PmapSaveIfNeeded(m, step, state, ok)

\* checkpoint_manager.restore(step, ...): the TrainState written for `step`
ManagerRestore(m, step) ==
  (CHOOSE c \in m.checkpoints : c.step = step).state

\* initialize_partitioned_model_states / initialize_model_state: a fresh
\* TrainState at step 0 whose variables are a function of init_key
InitializeModelState(init_key) == TrainState(0, init_key)

\* Variant of PjitGetModelStates that never looks at the checkpoints.
PjitGetModelStates_AlwaysInit(m, init_key) == InitializeModelState(init_key)

\* _OrbaxPjitTrainingCheckpointer.get_model_states
PjitGetModelStates(m, init_key) ==
  LET step == latest_step(m)
  IN IF step = None
     THEN InitializeModelState(init_key)
     ELSE ManagerRestore(m, step)

\* tasks_lib.restore_pmap_from_tensorstore: the newest checkpoint of the
\* directory, when there is one
RestorePmapFromTensorstore(m) ==
  IF m.checkpoints = {} THEN None
  ELSE SetMax({c.step : c \in m.checkpoints})

\* Variant of PmapGetModelStates that places the state on one device only.
PmapGetModelStates_OneDevice(m, init_key) ==
  LET step == IF pmap_use_tensorstore THEN RestorePmapFromTensorstore(m)
              ELSE latest_step(m)
  IN [d \in {1} |->
       IF step = None
       THEN InitializeModelState(init_key)
       ELSE ManagerRestore(m, step)]

\* _OrbaxPmapTrainingCheckpointer.get_model_states
PmapGetModelStates(m, init_key) ==
  LET step == IF pmap_use_tensorstore THEN RestorePmapFromTensorstore(m)
              ELSE latest_step(m)
  IN replicate_model_state(
       IF step = None
       THEN InitializeModelState(init_key)
       ELSE ManagerRestore(m, step))

get_model_states(m, init_key) ==
  IF variant = "pjit" THEN PjitGetModelStates(m, init_key)
  ELSE PmapGetModelStates(m, init_key)

\* int(maybe_unreplicate_for_fully_replicated(partitioned_train_state.step))
StepOf(partitioned) ==
  IF variant = "pmap" THEN partitioned[1].step ELSE partitioned.step

\* Variant of PollsErrors: save_if_needed without the check_for_errors() call.
PollsErrors_Never(step) == FALSE

\* _OrbaxPjitTrainingCheckpointer.save_if_needed reaches its
\* check_for_errors() call only past the should_save early return.
PjitPollsErrors(step) == should_save(step)

\* _OrbaxPmapTrainingCheckpointer.save_if_needed does the same.
PmapPollsErrors(step) == should_save(step)

PollsErrors(step) ==
  IF variant = "pjit" THEN PjitPollsErrors(step) ELSE PmapPollsErrors(step)

\* ------------------------------------------------------------------------
\* Initial states
\* ------------------------------------------------------------------------

\* Variant of LoopHead: the loop body starts past save_if_needed.
LoopHead_SkipsSave == "preempt_check"

\* First statement of the body of `while True`.
LoopHead == "save_if_needed"

\* Variant of AfterLoop: the function goes straight to wait_until_finished.
AfterLoop_SkipsSaveFinal == "wait_until_finished"

\* First statement after the loop, reached by both `break`s.
AfterLoop == "save_final"

\* Variant of ConsultPreemption: the flag is not tested.
ConsultPreemption_Always == TRUE

\* The guard in front of checkpointer.reached_preemption(step_i).
ConsultPreemption == exit_after_ondemand_checkpoint

\* Variant of PolicyConfigured: the policy is consulted without being configured.
PolicyConfigured_Always == TRUE

\* `if early_stopping_fn is not None`
PolicyConfigured == early_stopping_fn

EmptyManager == [checkpoints |-> {}, inflight |-> {}, error |-> FALSE,
                 err_call |-> 0, saves |-> 0, waits |-> 0,
                 last_save |-> [step |-> None, state |-> None, force |-> FALSE],
                 max_to_keep |-> None, keep_time_interval |-> None,
                 interval_elapsed |-> FALSE, preserved |-> {},
                 committed |-> {}]

\* Variant of CreateCheckpointManager that drops save_max_to_keep.
CreateCheckpointManager_KeepsAll(dir, max_to_keep, keep_interval) ==
  [EmptyManager EXCEPT !.checkpoints = dir,
                       !.keep_time_interval = keep_interval]

\* _create_checkpointer: the manager over the checkpoint directory, with
\* max_to_keep and keep_time_interval taken from the train hyperparameters.
CreateCheckpointManager(dir, max_to_keep, keep_interval) ==
  [EmptyManager EXCEPT !.checkpoints = dir,
                       !.max_to_keep = max_to_keep,
                       !.keep_time_interval = keep_interval]

\* ------------------------------------------------------------------------
\* PRNG keys: a key is the sequence of derivations that produced it
\* ------------------------------------------------------------------------

\* No key has been derived
NoKey == <<>>

\* jax.random.PRNGKey(seed)
PRNGKey(seed) == <<[op |-> "PRNGKey", data |-> seed, index |-> 0]>>

\* jax.random.split(key, num): num new keys
split(key, num) ==
  [i \in 1..num |-> Append(key, [op |-> "split", data |-> num, index |-> i])]

\* jax.random.fold_in(key, data)
fold_in(key, data) == Append(key, [op |-> "fold_in", data |-> data, index |-> 0])

\* partitioner.preprocess_prng_key(key): one key per local device under
\* pmap, the key itself under pjit
preprocess_prng_key(key) ==
  IF variant = "pmap" THEN split(key, LocalDeviceCount) ELSE key

InitObs == [train_runs |-> 0,
            save_if_needed_calls |-> 0,
            decided |-> <<None, None>>,
            save_final_calls |-> 0,
            save_final_args |-> <<None, None>>,
            wait_calls |-> 0,
            wait_after_final |-> FALSE,
            preempt_consults |-> 0,
            policy_consults |-> 0,
            first_policy_answer |-> FALSE,
            stop_reason |-> "none",
            raised |-> "none",
            exit_status |-> None,
            init_key |-> None,
            restored_dir |-> {},
            restarts |-> 0,
            handed |-> [step |-> None, partitioned |-> None],
            produced |-> [step |-> None, state |-> None],
            eval_runs |-> 0,
            eval_args |-> [step |-> None, state |-> None],
            decode_runs |-> 0,
            decode_args |-> [step |-> None, state |-> None],
            saved_steps |-> {},
            eval_steps |-> {},
            decode_steps |-> {},
            program_setups |-> 0,
            opened_writers |-> <<>>,
            exit_callbacks |-> <<>>,
            closed_writers |-> <<>>,
            train_program |-> "none",
            auto_sharding_mode |-> "unset",
            checkpointer_class |-> "none",
            prng_key |-> NoKey,
            train_prng_seed |-> NoKey,
            eval_prng_seed |-> NoKey,
            decode_prng_seed |-> NoKey,
            key_uses |-> [partitioner |-> NoKey,
                          get_model_states |-> NoKey,
                          train_program_eval |-> NoKey,
                          eval_programs |-> NoKey],
            last_run |-> [restored |-> FALSE, train_runs |-> 0,
                          train_prng_seed |-> NoKey,
                          eval_prng_seed |-> NoKey,
                          decode_prng_seed |-> NoKey]]

\* Checkpoint directories a run may start on: empty, or holding the
\* checkpoint of an earlier run.
InitialDirs ==
  {{}} \cup {{[step |-> n, state |-> TrainState(n, 0)]} : n \in 0..MaxInitStep}

\* DefaultExecutor with pairwise distinct input names and a checkpointer
\* that reports no step_to_restore
DefaultEntry ==
  /\ entry_path = "executor"
  /\ eval_names_unique = TRUE
  /\ decode_names_unique = TRUE
  /\ step_to_restore = None
  /\ save_keep_interval_duration = NoDuration
  /\ random_seed = 0
  /\ process_index = 0
  /\ experiment_train_program = (entry_path = "executor")
  /\ enable_auto_sharding = FALSE
  /\ checkpoint_type = "GDA"
  /\ async_checkpointer = FALSE
  /\ processes = NoProcesses

Init ==
  /\ variant \in {"pjit", "pmap"}
  /\ enable_checkpoint_saving \in BOOLEAN
  /\ pmap_use_tensorstore = FALSE
  /\ save_interval_steps \in 1..MaxInterval
  /\ num_train_steps \in 0..MaxTrainSteps
  /\ eval_interval_steps \in {0, 1}
  /\ eval_programs = (eval_interval_steps # 0)
  /\ decode_input_p \in BOOLEAN
  /\ decode_interval_steps \in 0..MaxInterval
  /\ decode_use_ema_states \in BOOLEAN
  /\ has_ema \in BOOLEAN
  \* options that are never read without decode inputs take their defaults
  /\ decode_input_p = FALSE =>
       decode_interval_steps = 0 /\ ~decode_use_ema_states /\ ~has_ema
  /\ decode_interval_steps = 0 => ~decode_use_ema_states /\ ~has_ema
  /\ ~decode_use_ema_states => ~has_ema
  /\ early_stopping_fn \in BOOLEAN
  /\ exit_after_ondemand_checkpoint \in BOOLEAN
  /\ steps_per_run \in 1..MaxStepsPerRun
  \* get_model_states over an empty directory or over one checkpoint
  /\ save_max_to_keep = None
  /\ \E dir \in InitialDirs :
       checkpoint_manager = CreateCheckpointManager(dir, save_max_to_keep, None)
  /\ partitioned_train_state = get_model_states(checkpoint_manager, 0)
  /\ initial_global_step = StepOf(partitioned_train_state)
  /\ pc = LoopHead
  /\ step_i = initial_global_step
  /\ DefaultEntry
  /\ eval_metrics = FALSE
  /\ decode_metrics = FALSE
  /\ obs = InitObs

\* ------------------------------------------------------------------------
\* The training loop, one action per statement of the loop body
\* ------------------------------------------------------------------------

Reverse(seq) == [i \in 1..Len(seq) |-> seq[Len(seq) + 1 - i]]

\* Control leaves the `with` block of the summary writers (return, exception
\* or exit(1), which raises SystemExit): ExitStack.__exit__ pops the
\* registered callbacks, last in first out.
ExitWith(o) ==
  [o EXCEPT !.exit_callbacks = <<>>,
            !.closed_writers = @ \o Reverse(o.exit_callbacks)]

\* An exception leaves the loop function: nothing after the raise runs.
Raise(kind) ==
  /\ pc' = "raised"
  /\ obs' = ExitWith([obs EXCEPT !.raised = kind])

\* The arguments the loop hands to the checkpointer
Handed == [step |-> step_i, partitioned |-> partitioned_train_state]

\* checkpointer.save_if_needed(step_i, partitioned_train_state, ...)
SaveIfNeeded ==
  /\ pc = "save_if_needed"
  /\ \E ok \in BOOLEAN :
       LET m == SaveIfNeededMgr(checkpoint_manager, step_i,
                                partitioned_train_state, ok)
           o == [obs EXCEPT !.save_if_needed_calls = @ + 1,
                            !.decided = <<step_i, partitioned_train_state>>,
                            !.handed = IF m.saves > checkpoint_manager.saves
                                       THEN Handed ELSE @,
                            !.saved_steps =
                               IF m.saves > checkpoint_manager.saves
                               THEN @ \cup {step_i} ELSE @]
       IN IF PollsErrors(step_i) /\ m.error
          THEN \* check_for_errors() raises the deferred error
               /\ checkpoint_manager' = [m EXCEPT !.error = FALSE]
               /\ pc' = "raised"
               /\ obs' = ExitWith([o EXCEPT !.raised = "storage"])
          ELSE /\ checkpoint_manager' = m
               /\ pc' = "preempt_check"
               /\ obs' = o
  /\ UNCHANGED <<cfgvars, step_i, partitioned_train_state, eval_metrics,
                 decode_metrics>>

\* if exit_after_ondemand_checkpoint and checkpointer.reached_preemption(step_i):
\*   checkpointer.wait_until_finished(); exit(1)
PreemptionCheck ==
  /\ pc = "preempt_check"
  /\ IF ~ConsultPreemption
     THEN /\ pc' = "should_run"
          /\ UNCHANGED <<checkpoint_manager, obs>>
     ELSE \E reached \in BOOLEAN, ok \in BOOLEAN :
            LET o == [obs EXCEPT !.preempt_consults = @ + 1]
                m == ManagerWait(checkpoint_manager, ok)
            IN IF ~reached
               THEN /\ pc' = "should_run"
                    /\ obs' = o
                    /\ UNCHANGED checkpoint_manager
               ELSE IF m.error
               THEN /\ checkpoint_manager' = [m EXCEPT !.error = FALSE]
                    /\ pc' = "raised"
                    /\ obs' = ExitWith([o EXCEPT !.wait_calls = @ + 1,
                                                 !.stop_reason = "preempted",
                                                 !.raised = "storage"])
               ELSE /\ checkpoint_manager' = m
                    /\ pc' = "exited"
                    /\ obs' = ExitWith([o EXCEPT !.wait_calls = @ + 1,
                                                 !.stop_reason = "preempted",
                                                 !.exit_status = 1])
  /\ UNCHANGED <<cfgvars, step_i, partitioned_train_state, eval_metrics,
                 decode_metrics>>

\* train_program.should_run(state, step): the horizon test of the train program
should_run(state, step) == step < num_train_steps

\* Variant of Break: the statement after the test runs whatever the answer.
Break_FallsThrough(stop) == FALSE

\* `if not train_program.should_run(...): break` leaves the loop exactly
\* when should_run answered no.
Break(stop) == stop

\* if not train_program.should_run(partitioned_train_state, step_i): break
ShouldRun ==
  /\ pc = "should_run"
  /\ IF ~Break(~should_run(partitioned_train_state, step_i))
     THEN /\ pc' = "run"
          /\ UNCHANGED obs
     ELSE /\ pc' = AfterLoop
          /\ obs' = [obs EXCEPT !.stop_reason = "completed"]
  /\ UNCHANGED <<cfgvars, step_i, partitioned_train_state, eval_metrics,
                 decode_metrics, checkpoint_manager>>

\* The train program's update of one TrainState: the step counter advances
\* and the variables change.
TrainStep(train_state) ==
  [train_state EXCEPT !.step = @ + steps_per_run, !.mdl_vars = @ + 1]

\* program_output = train_program.run(partitioned_train_state, step_i)
Run ==
  /\ pc = "run"
  /\ partitioned_train_state' =
       IF variant = "pmap"
       THEN [d \in DOMAIN partitioned_train_state |->
               TrainStep(partitioned_train_state[d])]
       ELSE TrainStep(partitioned_train_state)
  /\ step_i' = step_i + steps_per_run
  /\ eval_metrics' = FALSE
  /\ decode_metrics' = FALSE
  /\ obs' = [obs EXCEPT !.train_runs = @ + 1,
                        !.produced = [step |-> step_i',
                                      state |-> partitioned_train_state']]
  /\ pc' = "eval"
  /\ UNCHANGED <<cfgvars, checkpoint_manager>>

\* programs.get_eval_train_state: the view of a train state that the eval
\* programs read
get_eval_train_state(partitioned) == [eval_view_of |-> partitioned]

\* tasks_lib.extract_ema: the train state with the EMA variables in place of
\* the live ones
extract_ema(partitioned) == [ema_of |-> partitioned]

\* Variant of EvalDue that ignores the step.
EvalDue_EveryStep(step) == eval_interval_steps # 0

\* `train_p.eval_interval_steps and step_i % train_p.eval_interval_steps == 0`
EvalDue(step) ==
  eval_interval_steps # 0 /\ step % eval_interval_steps = 0

\* `decode_input_p and train_p.decode_interval_steps and
\*  step_i % train_p.decode_interval_steps == 0`
DecodeDue(step) ==
  /\ decode_input_p
  /\ decode_interval_steps # 0
  /\ step % decode_interval_steps = 0

\* Run eval at regular step interval.
Eval ==
  /\ pc = "eval"
  /\ IF EvalDue(step_i) /\ eval_programs
     THEN /\ eval_metrics' = TRUE
          /\ obs' = [obs EXCEPT
                       !.eval_runs = @ + 1,
                       !.eval_steps = @ \cup {step_i},
                       !.eval_args =
                          [step |-> step_i,
                           state |-> get_eval_train_state(
                                       partitioned_train_state)],
                       !.key_uses.eval_programs = obs.eval_prng_seed]
     ELSE /\ eval_metrics' = FALSE
          /\ UNCHANGED obs
  /\ pc' = "decode"
  /\ UNCHANGED <<cfgvars, step_i, partitioned_train_state, decode_metrics,
                 checkpoint_manager>>

\* Variant of StateAfterDecode that puts the EMA values into the loop's state.
StateAfterDecode_Ema ==
  LET Ema(train_state) == [train_state EXCEPT !.mdl_vars = @ + 1]
  IN IF DecodeDue(step_i) /\ decode_use_ema_states /\ has_ema
     THEN IF variant = "pmap"
          THEN [d \in DOMAIN partitioned_train_state |->
                  Ema(partitioned_train_state[d])]
          ELSE Ema(partitioned_train_state)
     ELSE partitioned_train_state

\* The states decoded are bound to decode_partitioned_train_state, a local
\* of the iteration; partitioned_train_state is not assigned.
StateAfterDecode == partitioned_train_state

\* Decode at regular step interval, on the EMA states when requested.
Decode ==
  /\ pc = "decode"
  /\ IF DecodeDue(step_i)
     THEN IF decode_use_ema_states /\ ~has_ema
          THEN /\ Raise("config")
               /\ UNCHANGED decode_metrics
          ELSE /\ decode_metrics' = TRUE
               /\ pc' = "early_stop"
               /\ obs' = [obs EXCEPT
                            !.decode_runs = @ + 1,
                            !.decode_steps = @ \cup {step_i},
                            !.decode_args =
                               [step |-> step_i,
                                state |->
                                  IF decode_use_ema_states
                                  THEN extract_ema(partitioned_train_state)
                                  ELSE partitioned_train_state]]
     ELSE /\ decode_metrics' = FALSE
          /\ pc' = "early_stop"
          /\ UNCHANGED obs
  /\ partitioned_train_state' = StateAfterDecode
  /\ UNCHANGED <<cfgvars, step_i, eval_metrics, checkpoint_manager>>

\* Variant of EarlyStop: the policy's answer is recorded but the loop goes on.
EarlyStop_NoBreak ==
  /\ pc = "early_stop"
  /\ IF ~PolicyConfigured
     THEN /\ pc' = LoopHead
          /\ UNCHANGED obs
     ELSE \E stop \in BOOLEAN :
            LET o == [obs EXCEPT !.policy_consults = @ + 1,
                                 !.first_policy_answer =
                                    IF obs.policy_consults = 0 THEN stop ELSE @]
            IN IF stop
               THEN /\ pc' = LoopHead
                    /\ obs' = o
               ELSE /\ pc' = LoopHead
                    /\ obs' = o
  /\ UNCHANGED <<cfgvars, step_i, partitioned_train_state, eval_metrics,
                 decode_metrics, checkpoint_manager>>

\* if early_stopping_fn is not None: if tuning_lib.should_early_stop(...): break
EarlyStop ==
  /\ pc = "early_stop"
  /\ IF ~PolicyConfigured
     THEN /\ pc' = LoopHead
          /\ UNCHANGED obs
     ELSE \E stop \in BOOLEAN :
            LET o == [obs EXCEPT !.policy_consults = @ + 1,
                                 !.first_policy_answer =
                                    IF obs.policy_consults = 0 THEN stop ELSE @]
            IN IF stop
               THEN /\ pc' = AfterLoop
                    /\ obs' = [o EXCEPT !.stop_reason = "early_stop"]
               ELSE /\ pc' = LoopHead
                    /\ obs' = o
  /\ UNCHANGED <<cfgvars, step_i, partitioned_train_state, eval_metrics,
                 decode_metrics, checkpoint_manager>>

\* checkpointer.save_final(step_i, partitioned_train_state, ...)
SaveFinal ==
  /\ pc = "save_final"
  /\ \E ok \in BOOLEAN :
       checkpoint_manager' = SaveFinalMgr(checkpoint_manager, step_i,
                                          partitioned_train_state, ok)
  /\ obs' = [obs EXCEPT !.save_final_calls = @ + 1,
                        !.save_final_args = <<step_i, partitioned_train_state>>,
                        !.handed = IF checkpoint_manager'.saves
                                        > checkpoint_manager.saves
                                   THEN Handed ELSE @]
  /\ pc' = "wait_until_finished"
  /\ UNCHANGED <<cfgvars, step_i, partitioned_train_state, eval_metrics,
                 decode_metrics>>

\* checkpointer.wait_until_finished(), then the function returns
WaitUntilFinished ==
  /\ pc = "wait_until_finished"
  /\ \E ok \in BOOLEAN :
       LET m == ManagerWait(checkpoint_manager, ok)
           o == [obs EXCEPT !.wait_calls = @ + 1,
                            !.wait_after_final = (obs.save_final_calls > 0)]
       IN IF m.error
          THEN /\ checkpoint_manager' = [m EXCEPT !.error = FALSE]
               /\ pc' = "raised"
               /\ obs' = ExitWith([o EXCEPT !.raised = "storage"])
          ELSE /\ checkpoint_manager' = m
               /\ pc' = "returned"
               /\ obs' = ExitWith([o EXCEPT !.exit_status = 0])
  /\ UNCHANGED <<cfgvars, step_i, partitioned_train_state, eval_metrics,
                 decode_metrics>>

\* The background write of the manager ends while the loop goes on.
WriteEnds ==
  /\ pc \notin {"returned", "exited", "raised"}
  /\ \E w \in checkpoint_manager.inflight, ok \in BOOLEAN :
       checkpoint_manager' = FinishWrite(checkpoint_manager, w, ok)
  /\ UNCHANGED <<cfgvars, pc, step_i, partitioned_train_state, eval_metrics,
                 decode_metrics, obs>>

Next ==
  \/ SaveIfNeeded
  \/ PreemptionCheck
  \/ ShouldRun
  \/ Run
  \/ Eval
  \/ Decode
  \/ EarlyStop
  \/ SaveFinal
  \/ WaitUntilFinished
  \/ WriteEnds

Spec == Init /\ [][Next]_vars

\* The statements of the loop function, which its thread executes one after
\* the other
LoopStep ==
  \/ SaveIfNeeded
  \/ PreemptionCheck
  \/ ShouldRun
  \/ Run
  \/ Eval
  \/ Decode
  \/ EarlyStop
  \/ SaveFinal
  \/ WaitUntilFinished

\* The loop under its scheduling: the thread of the loop function goes on to
\* its next statement, and the manager's background thread finishes the write
\* it was handed.
SpecLive == Init /\ [][Next]_vars /\ WF_vars(LoopStep) /\ WF_vars(WriteEnds)

\* ------------------------------------------------------------------------
\* A job on a checkpoint directory: get_model_states, the training loop,
\* and a restart of the job on the directory the loop left behind
\* ------------------------------------------------------------------------

\* The value of partitioned_train_state before get_model_states has run
NoState ==
  IF variant = "pmap" THEN replicate_model_state(TrainState(None, None))
  ELSE TrainState(None, None)

\* Directories left by earlier jobs: any set of checkpoints with distinct steps
CkptDirs ==
  SUBSET {[step |-> n, state |-> TrainState(n, n)] : n \in 0..MaxInitStep}

InitCkpt ==
  /\ variant \in {"pjit", "pmap"}
  /\ enable_checkpoint_saving \in BOOLEAN
  /\ pmap_use_tensorstore \in BOOLEAN
  /\ variant = "pjit" => ~pmap_use_tensorstore
  /\ save_interval_steps \in 1..MaxInterval
  /\ num_train_steps = MaxTrainSteps
  /\ eval_interval_steps = 0
  /\ eval_programs = FALSE
  /\ decode_input_p = FALSE
  /\ decode_interval_steps = 0
  /\ decode_use_ema_states = FALSE
  /\ has_ema = FALSE
  /\ early_stopping_fn \in BOOLEAN
  /\ exit_after_ondemand_checkpoint = FALSE
  /\ steps_per_run = 1
  /\ initial_global_step = None
  /\ save_max_to_keep \in {None} \cup 1..MaxToKeep
  /\ \E dir \in CkptDirs, ki \in {None, 1} :
       checkpoint_manager = CreateCheckpointManager(dir, save_max_to_keep, ki)
  /\ partitioned_train_state = NoState
  /\ pc = "start"
  /\ step_i = None
  /\ DefaultEntry
  /\ eval_metrics = FALSE
  /\ decode_metrics = FALSE
  /\ obs = InitObs

\* partitioned_train_state = checkpointer.get_model_states(..., init_key, ...)
\* initial_global_step = int(...(partitioned_train_state.step))
GetModelStates ==
  /\ pc = "start"
  /\ \E init_key \in 0..MaxInitKey :
       /\ partitioned_train_state' =
            get_model_states(checkpoint_manager, init_key)
       /\ obs' = [obs EXCEPT !.init_key = init_key,
                             !.restored_dir = checkpoint_manager.checkpoints]
  /\ initial_global_step' = StepOf(partitioned_train_state')
  /\ step_i' = StepOf(partitioned_train_state')
  /\ pc' = LoopHead
  /\ UNCHANGED <<variant, enable_checkpoint_saving, pmap_use_tensorstore,
                 save_interval_steps, num_train_steps, eval_interval_steps,
                 eval_programs, decode_input_p, decode_interval_steps,
                 decode_use_ema_states, has_ema, early_stopping_fn,
                 exit_after_ondemand_checkpoint, steps_per_run, entryvars,
                 eval_metrics, decode_metrics, checkpoint_manager>>

\* keep_time_interval has passed since the last preserved checkpoint
IntervalElapses ==
  /\ pc \notin {"start", "returned", "exited", "raised"}
  /\ checkpoint_manager.keep_time_interval # None
  /\ ~checkpoint_manager.interval_elapsed
  /\ checkpoint_manager' =
       [checkpoint_manager EXCEPT !.interval_elapsed = TRUE]
  /\ UNCHANGED <<cfgvars, pc, step_i, partitioned_train_state, eval_metrics,
                 decode_metrics, obs>>

\* The job that returned is started again on the same directory, with a new
\* manager built by _create_checkpointer from the same hyperparameters.
Restart ==
  /\ pc = "returned"
  /\ obs.restarts < MaxRestarts
  /\ checkpoint_manager' =
       [CreateCheckpointManager(checkpoint_manager.checkpoints,
                                save_max_to_keep,
                                checkpoint_manager.keep_time_interval)
          EXCEPT !.preserved = checkpoint_manager.preserved,
                 !.committed = checkpoint_manager.committed]
  /\ partitioned_train_state' = NoState
  /\ pc' = "start"
  /\ step_i' = None
  /\ initial_global_step' = None
  /\ obs' = [InitObs EXCEPT
               !.restarts = obs.restarts + 1,
               !.handed = obs.handed,
               \* what the run that derived keys leaves to compare with
               !.last_run = IF obs.train_prng_seed = NoKey THEN @
                            ELSE [restored |-> obs.restored_dir # {},
                                  train_runs |-> obs.train_runs,
                                  train_prng_seed |-> obs.train_prng_seed,
                                  eval_prng_seed |-> obs.eval_prng_seed,
                                  decode_prng_seed |-> obs.decode_prng_seed]]
  /\ UNCHANGED <<variant, enable_checkpoint_saving, pmap_use_tensorstore,
                 save_interval_steps, num_train_steps, eval_interval_steps,
                 eval_programs, decode_input_p, decode_interval_steps,
                 decode_use_ema_states, has_ema, early_stopping_fn,
                 exit_after_ondemand_checkpoint, steps_per_run, entryvars,
                 eval_metrics, decode_metrics>>

NextCkpt ==
  \/ GetModelStates
  \/ IntervalElapses
  \/ Restart
  \/ Next

SpecCkpt == InitCkpt /\ [][NextCkpt]_vars

\* A job and its restarts with enable_checkpoint_saving false: no write is
\* ever handed to the manager's background thread.
InitNoSave == InitCkpt /\ ~enable_checkpoint_saving

NextNoSave ==
  \/ GetModelStates
  \/ Restart
  \/ LoopStep

SpecNoSave == InitNoSave /\ [][NextNoSave]_vars

\* ------------------------------------------------------------------------
\* Setup: what each entry path does between get_model_states and the loop
\* ------------------------------------------------------------------------

\* Variant of SetupOrder: the executor compares step_to_restore after the
\* programs are set up.
SetupOrder_LateCheck(path) ==
  IF path = "executor"
  THEN <<"partition_decode", "enter_summary_writers", "setup_programs",
         "check_step_to_restore", "check_eval_names">>
  ELSE IF path = "pmap"
  THEN <<"check_eval_names", "partition_decode", "enter_summary_writers",
         "setup_programs">>
  ELSE <<"partition_decode", "enter_summary_writers", "setup_programs">>

\* The setup statements of each entry path, in program order.
\*   executor: executors.py 407-410, 420-424, 427-429, 433-443, 444
\*   pmap:     train.py 748-750, then 1016-1019 (756), 1023-1033, 1062
\*   spmd:     train.py 1016-1019 (882), 1023-1033, 1062
SetupOrder(path) ==
  IF path = "executor"
  THEN <<"partition_decode", "check_step_to_restore",
         "enter_summary_writers", "setup_programs", "check_eval_names">>
  ELSE IF path = "pmap"
  THEN <<"check_eval_names", "partition_decode", "enter_summary_writers",
         "setup_programs">>
  ELSE <<"partition_decode", "enter_summary_writers", "setup_programs">>

SetupPcs ==
  {"partition_decode", "check_step_to_restore", "enter_summary_writers",
   "setup_programs", "check_eval_names"}

\* The statement after `stmt` on the entry path, the loop after the last one
AfterSetup(stmt) ==
  LET order == SetupOrder(entry_path)
      i == CHOOSE j \in 1..Len(order) : order[j] = stmt
  IN IF i = Len(order) THEN LoopHead ELSE order[i + 1]

\* Variant of DecodeSeed that hands the decode program the eval key.
DecodeSeed_EvalKey(decode_key) == obs.eval_prng_seed

\* decode_key as partition_decode_once_fns hands it to the decode program:
\* executors.py 304, train.py 758 (pmap), 873 (spmd)
DecodeSeed(decode_key) ==
  IF entry_path = "pmap" THEN split(decode_key, LocalDeviceCount)
  ELSE preprocess_prng_key(decode_key)

\* if decode_input_p: partition_decode_once_fns(prng_key, decode_input_p),
\* whose check_unique_names raises on a duplicate decode input name
PartitionDecode ==
  /\ pc = "partition_decode"
  /\ IF decode_input_p /\ ~decode_names_unique
     THEN Raise("duplicate_names")
     ELSE /\ pc' = AfterSetup("partition_decode")
          /\ obs' = IF decode_input_p
                    THEN LET keys == split(obs.prng_key, 2)
                         IN [obs EXCEPT
                               !.prng_key = keys[1],
                               !.decode_prng_seed = DecodeSeed(keys[2])]
                    ELSE obs
  /\ UNCHANGED <<cfgvars, step_i, partitioned_train_state, eval_metrics,
                 decode_metrics, checkpoint_manager>>

\* if checkpointer.step_to_restore is not None:
\*   assert checkpointer.step_to_restore == initial_global_step
CheckStepToRestore ==
  /\ pc = "check_step_to_restore"
  /\ IF step_to_restore # None /\ step_to_restore # initial_global_step
     THEN Raise("step_mismatch")
     ELSE /\ pc' = AfterSetup("check_step_to_restore")
          /\ UNCHANGED obs
  /\ UNCHANGED <<cfgvars, step_i, partitioned_train_state, eval_metrics,
                 decode_metrics, checkpoint_manager>>

\* The summary directories in the order __enter__ opens their writers:
\* _DecodeSummaryWriters of the executor, _SummaryContextManager of train.py
\* (eval_skip_train keeps its default False)
SummaryDirs ==
  LET eval_test == IF eval_programs THEN <<"eval_test">> ELSE <<>>
      decode_test == IF decode_input_p THEN <<"decode_test">> ELSE <<>>
  IN IF entry_path = "executor"
     THEN decode_test
     ELSE <<"train", "eval_train">> \o eval_test \o decode_test

\* with _SummaryContextManager(...) as (...): / with _DecodeSummaryWriters(...)
\* __enter__ opens the writers one after the other with enter_context; when
\* get_summary_writer fails for one of them the exception leaves __enter__,
\* and the `with` statement calls __exit__ only after __enter__ returned.
EnterSummaryWriters ==
  /\ pc = "enter_summary_writers"
  /\ \E opened \in 0..Len(SummaryDirs) :
       LET writers == SubSeq(SummaryDirs, 1, opened)
           o == [obs EXCEPT !.opened_writers = writers,
                            !.exit_callbacks = writers]
       IN IF opened = Len(SummaryDirs)
          THEN /\ pc' = AfterSetup("enter_summary_writers")
               /\ obs' = o
          ELSE /\ pc' = "raised"
               /\ obs' = [o EXCEPT !.raised = "open_writer"]
  /\ UNCHANGED <<cfgvars, step_i, partitioned_train_state, eval_metrics,
                 decode_metrics, checkpoint_manager>>

\* The key the eval programs are set up with: the executor hands each of
\* them eval_prng_seed; train.py constructs them without a key.
EvalProgramsSetupKey ==
  IF entry_path = "executor" /\ eval_programs THEN obs.eval_prng_seed
  ELSE NoKey

\* train_program.setup(...); for program in eval_programs: program.setup(...)
SetupPrograms ==
  /\ pc = "setup_programs"
  /\ pc' = AfterSetup("setup_programs")
  /\ obs' = [obs EXCEPT
               !.program_setups = @ + 1,
               !.key_uses.train_program_eval = obs.eval_prng_seed,
               !.key_uses.eval_programs = EvalProgramsSetupKey]
  /\ UNCHANGED <<cfgvars, step_i, partitioned_train_state, eval_metrics,
                 decode_metrics, checkpoint_manager>>

\* trainer_lib.check_unique_names([... eval_input ...])
CheckEvalNames ==
  /\ pc = "check_eval_names"
  /\ IF ~eval_names_unique
     THEN Raise("duplicate_names")
     ELSE /\ pc' = AfterSetup("check_eval_names")
          /\ UNCHANGED obs
  /\ UNCHANGED <<cfgvars, step_i, partitioned_train_state, eval_metrics,
                 decode_metrics, checkpoint_manager>>

InitEntry ==
  /\ entry_path \in {"executor", "pmap", "spmd"}
  /\ variant \in {"pjit", "pmap"}
  /\ entry_path = "pmap" => variant = "pmap"
  /\ entry_path = "spmd" => variant = "pjit"
  /\ eval_programs \in BOOLEAN
  /\ eval_interval_steps = 1
  /\ decode_input_p \in BOOLEAN
  /\ decode_interval_steps = 1
  \* two programs are registered wherever two names can collide
  /\ eval_names_unique \in BOOLEAN
  /\ ~eval_names_unique => eval_programs
  /\ decode_names_unique \in BOOLEAN
  /\ ~decode_names_unique => decode_input_p
  \* only the executor's checkpointer reports a step_to_restore
  /\ step_to_restore \in {None} \cup 0..MaxInitStep
  /\ entry_path # "executor" => step_to_restore = None
  /\ save_keep_interval_duration = NoDuration
  /\ random_seed = 0
  /\ process_index = 0
  /\ experiment_train_program = (entry_path = "executor")
  /\ enable_auto_sharding = FALSE
  /\ checkpoint_type = "GDA"
  /\ async_checkpointer = FALSE
  /\ processes = NoProcesses
  /\ enable_checkpoint_saving = TRUE
  /\ pmap_use_tensorstore = FALSE
  /\ save_interval_steps = 1
  /\ num_train_steps = MaxTrainSteps
  /\ decode_use_ema_states = FALSE
  /\ has_ema = FALSE
  /\ early_stopping_fn = FALSE
  /\ exit_after_ondemand_checkpoint = FALSE
  /\ steps_per_run = 1
  /\ save_max_to_keep = None
  /\ \E dir \in InitialDirs :
       checkpoint_manager = CreateCheckpointManager(dir, save_max_to_keep, None)
  /\ partitioned_train_state = get_model_states(checkpoint_manager, 0)
  /\ initial_global_step = StepOf(partitioned_train_state)
  /\ pc = SetupOrder(entry_path)[1]
  /\ step_i = initial_global_step
  /\ eval_metrics = FALSE
  /\ decode_metrics = FALSE
  /\ obs = InitObs

NextEntry ==
  \/ PartitionDecode
  \/ EnterSummaryWriters
  \/ CheckStepToRestore
  \/ SetupPrograms
  \/ CheckEvalNames
  \/ Next

SpecEntry == InitEntry /\ [][NextEntry]_vars

\* ------------------------------------------------------------------------
\* From the random seed to the train, eval and decode keys
\* ------------------------------------------------------------------------

InitRng ==
  /\ entry_path \in {"executor", "pmap", "spmd"}
  /\ variant \in {"pjit", "pmap"}
  /\ entry_path = "pmap" => variant = "pmap"
  /\ entry_path = "spmd" => variant = "pjit"
  /\ random_seed \in 0..MaxInitKey
  /\ process_index \in 0..(NumProcesses - 1)
  \* the executor is always handed its train program; only
  \* train_and_evaluate_spmd_model takes enable_auto_sharding
  /\ experiment_train_program \in BOOLEAN
  /\ entry_path = "executor" => experiment_train_program
  /\ enable_auto_sharding \in BOOLEAN
  /\ entry_path # "spmd" => ~enable_auto_sharding
  /\ checkpoint_type = "GDA"
  /\ async_checkpointer = FALSE
  /\ processes = NoProcesses
  /\ decode_input_p \in BOOLEAN
  /\ decode_interval_steps = 1
  /\ eval_programs \in BOOLEAN
  /\ eval_interval_steps = IF eval_programs THEN 1 ELSE 0
  /\ eval_names_unique = TRUE
  /\ decode_names_unique = TRUE
  /\ step_to_restore = None
  /\ save_keep_interval_duration = NoDuration
  /\ enable_checkpoint_saving = TRUE
  /\ pmap_use_tensorstore = FALSE
  /\ save_interval_steps = 1
  /\ num_train_steps = MaxTrainSteps
  /\ decode_use_ema_states = FALSE
  /\ has_ema = FALSE
  /\ early_stopping_fn = FALSE
  /\ exit_after_ondemand_checkpoint = FALSE
  /\ steps_per_run = 1
  /\ initial_global_step = None
  /\ save_max_to_keep = None
  /\ \E dir \in InitialDirs :
       checkpoint_manager = CreateCheckpointManager(dir, save_max_to_keep, None)
  /\ partitioned_train_state = NoState
  /\ pc = "start"
  /\ step_i = None
  /\ eval_metrics = FALSE
  /\ decode_metrics = FALSE
  /\ obs = InitObs

\* The values initialize_model_state draws from init_key: keys of different
\* seeds give different values.
InitValues(init_key) == init_key[1].data

\* Variant of FoldInData that folds in the step of the TrainState.
FoldInData_Step == StepOf(partitioned_train_state)

\* jax.random.fold_in(prng_key, jax.process_index())
FoldInData == process_index

\* The parameters enable_auto_sharding and experiment_train_program of
\* _create_program_and_states as the call of the entry point binds them:
\* train_and_evaluate_pmap passes experiment_train_program as the sixth
\* positional argument, which is enable_auto_sharding; a program object is
\* truthy.
CreateProgramArgs ==
  IF entry_path = "pmap"
  THEN [enable_auto_sharding |-> experiment_train_program,
        experiment_train_program |-> FALSE]
  ELSE [enable_auto_sharding |-> enable_auto_sharding,
        experiment_train_program |-> experiment_train_program]

\* train_program and auto_sharding_mode as _create_program_and_states
\* chooses them; the executor runs the program it was set up with.
CreateProgram ==
  IF entry_path = "executor"
  THEN [train_program |-> "experiment", auto_sharding_mode |-> "unset"]
  ELSE [train_program |->
          IF CreateProgramArgs.experiment_train_program
          THEN "experiment" ELSE "SingleTaskTrainProgram",
        auto_sharding_mode |->
          IF CreateProgramArgs.enable_auto_sharding THEN "TRAIN" ELSE "None"]

\* The key handed to the partitioner and then to get_model_states:
\* root_prng_key in the executor, init_key in _create_program_and_states.
HandedInitKey ==
  IF entry_path = "executor" THEN PRNGKey(random_seed)
  ELSE split(PRNGKey(random_seed), 2)[2]

\* _create_program_and_states, and the part of the executor's setup up to
\* get_model_states: the key is split into prng_key and init_key whether or
\* not a checkpoint is restored; on the pmap paths the process index is
\* folded into prng_key afterwards.
CreateProgramAndStates ==
  /\ pc = "start"
  /\ LET keys == split(PRNGKey(random_seed), 2)
         init_key == keys[2]
         state == get_model_states(checkpoint_manager, InitValues(init_key))
     IN /\ partitioned_train_state' = state
        /\ initial_global_step' = StepOf(state)
        /\ step_i' = StepOf(state)
        /\ obs' = [obs EXCEPT
                     !.prng_key = keys[1],
                     !.train_program = CreateProgram.train_program,
                     !.auto_sharding_mode = CreateProgram.auto_sharding_mode,
                     !.init_key = InitValues(init_key),
                     !.key_uses.partitioner = HandedInitKey,
                     !.key_uses.get_model_states = HandedInitKey,
                     !.restored_dir = checkpoint_manager.checkpoints]
  /\ pc' = "split_keys"
  /\ UNCHANGED <<variant, enable_checkpoint_saving, pmap_use_tensorstore,
                 save_interval_steps, num_train_steps, eval_interval_steps,
                 eval_programs, decode_input_p, decode_interval_steps,
                 decode_use_ema_states, has_ema, early_stopping_fn,
                 exit_after_ondemand_checkpoint, steps_per_run, entryvars,
                 eval_metrics, decode_metrics, checkpoint_manager>>

\* prng_key, train_key, eval_key = jax.random.split(prng_key, 3) and the
\* per-device split of the train and eval keys
SplitKeys ==
  /\ pc = "split_keys"
  /\ LET root == IF variant = "pmap"
                 THEN fold_in(obs.prng_key, FoldInData)
                 ELSE obs.prng_key
         keys == split(root, 3)
         PerDevice(key) == IF entry_path = "pmap"
                           THEN split(key, LocalDeviceCount)
                           ELSE preprocess_prng_key(key)
     IN obs' = [obs EXCEPT !.prng_key = keys[1],
                           !.train_prng_seed = PerDevice(keys[2]),
                           !.eval_prng_seed = PerDevice(keys[3])]
  /\ pc' = SetupOrder(entry_path)[1]
  /\ UNCHANGED <<cfgvars, step_i, partitioned_train_state, eval_metrics,
                 decode_metrics, checkpoint_manager>>

NextRng ==
  \/ CreateProgramAndStates
  \/ SplitKeys
  \/ PartitionDecode
  \/ EnterSummaryWriters
  \/ CheckStepToRestore
  \/ SetupPrograms
  \/ CheckEvalNames
  \/ Restart
  \/ Next

SpecRng == InitRng /\ [][NextRng]_vars

\* ------------------------------------------------------------------------
\* The processes of one job from _make_checkpoint_dir to the first train step
\* ------------------------------------------------------------------------

Procs == 0..(NumProcesses - 1)

\* Variant of ProcOrder with the barrier ahead of the mkdir.
ProcOrder_SyncFirst ==
  <<"makedirs_sync", "mkdir", "create_manager", "get_model_states",
    "start_sync", "save_if_needed", "run">>

\* The statements each process executes, in program order:
\*   train.py 80-81, 83, 407-412, 964-966, 1071, 1078-1080, 1089
ProcOrder ==
  <<"mkdir", "makedirs_sync", "create_manager", "get_model_states",
    "start_sync", "save_if_needed", "run">>

\* The statement after stmt, "end" after the last one
AfterStmt(stmt) ==
  LET i == CHOOSE j \in 1..Len(ProcOrder) : ProcOrder[j] = stmt
  IN IF i = Len(ProcOrder) THEN "end" ELSE ProcOrder[i + 1]

\* The position of a statement in program order
StmtIndex(stmt) ==
  IF stmt = "end" THEN Len(ProcOrder) + 1
  ELSE CHOOSE j \in 1..Len(ProcOrder) : ProcOrder[j] = stmt

NoTag == [name |-> "none", step |-> None]

\* f'checkpointer:makedirs:{checkpoint_dir}'
MakedirsTag == [name |-> "checkpointer:makedirs", step |-> None]

\* Variant of StartTag without the step.
StartTag_NoStep(step) == [name |-> "Start training loop", step |-> None]

\* f'Start training loop from step: {step_i}'
StartTag(step) == [name |-> "Start training loop", step |-> step]

InitProcs ==
  /\ variant = "pjit"
  /\ enable_checkpoint_saving = TRUE
  /\ pmap_use_tensorstore = FALSE
  /\ save_interval_steps = 1
  /\ num_train_steps = MaxTrainSteps
  /\ eval_interval_steps = 0
  /\ eval_programs = FALSE
  /\ decode_input_p = FALSE
  /\ decode_interval_steps = 0
  /\ decode_use_ema_states = FALSE
  /\ has_ema = FALSE
  /\ early_stopping_fn = FALSE
  /\ exit_after_ondemand_checkpoint = FALSE
  /\ steps_per_run = 1
  /\ initial_global_step = None
  /\ entry_path = "spmd"
  /\ eval_names_unique = TRUE
  /\ decode_names_unique = TRUE
  /\ step_to_restore = None
  /\ save_max_to_keep = None
  /\ save_keep_interval_duration = NoDuration
  /\ random_seed = 0
  /\ process_index = 0
  /\ experiment_train_program = FALSE
  /\ enable_auto_sharding = FALSE
  /\ checkpoint_type = "GDA"
  /\ async_checkpointer = FALSE
  /\ checkpoint_manager = EmptyManager
  /\ partitioned_train_state = NoState
  /\ pc = "start"
  /\ step_i = None
  /\ eval_metrics = FALSE
  /\ decode_metrics = FALSE
  /\ obs = InitObs
  \* the checkpoint directory exists when an earlier job has left it
  /\ \E exists \in BOOLEAN :
       processes =
         [proc |-> [p \in Procs |->
                      [pc |-> ProcOrder[1],
                       arrived |-> FALSE,
                       tag |-> NoTag,
                       step_i |-> None,
                       initial_step |-> None,
                       manager_dir |-> "none",
                       save_if_needed_calls |-> 0,
                       train_runs |-> 0]],
          checkpoint_dir |-> exists,
          mkdirs |-> 0,
          creators |-> {}]

singlevars == <<entryparams, variant, enable_checkpoint_saving,
                pmap_use_tensorstore, save_interval_steps, num_train_steps,
                eval_interval_steps, eval_programs, decode_input_p,
                decode_interval_steps, decode_use_ema_states, has_ema,
                early_stopping_fn, exit_after_ondemand_checkpoint,
                steps_per_run, initial_global_step, pc, step_i,
                partitioned_train_state, eval_metrics, decode_metrics,
                checkpoint_manager, obs>>

\* Variant of Creates without the test of the process index.
Creates_AnyProcess(p) == ~processes.checkpoint_dir

\* jax.process_index() == 0 and not checkpoint_dir.exists()
Creates(p) == p = 0 /\ ~processes.checkpoint_dir

\* if jax.process_index() == 0 and not checkpoint_dir.exists():
\*   checkpoint_dir.mkdir(parents=True, exist_ok=True)
Mkdir(p) ==
  /\ processes.proc[p].pc = "mkdir"
  /\ LET creates == Creates(p)
     IN processes' =
          [processes EXCEPT
             !.proc[p].pc = AfterStmt("mkdir"),
             !.checkpoint_dir = IF creates THEN TRUE ELSE @,
             !.mkdirs = IF creates THEN @ + 1 ELSE @,
             !.creators = IF creates THEN @ \cup {p} ELSE @]
  /\ UNCHANGED singlevars

\* checkpoint_manager = checkpoint_managers.OrbaxCheckpointManager(
\*     checkpoint_dir, ...): the manager is built on the directory as the
\* process finds it.
ProcCreateManager(p) ==
  /\ processes.proc[p].pc = "create_manager"
  /\ processes' =
       [processes EXCEPT
          !.proc[p].pc = AfterStmt("create_manager"),
          !.proc[p].manager_dir =
             IF processes.checkpoint_dir THEN "present" ELSE "missing"]
  /\ UNCHANGED singlevars

\* The tag of the sync_global_devices call at statement stmt
TagAt(stmt, step) == IF stmt = "makedirs_sync" THEN MakedirsTag ELSE StartTag(step)

\* py_utils.sync_global_devices(tag): the process reaches the barrier
Arrive(p) ==
  /\ processes.proc[p].pc \in {"makedirs_sync", "start_sync"}
  /\ ~processes.proc[p].arrived
  /\ processes' =
       [processes EXCEPT
          !.proc[p].arrived = TRUE,
          !.proc[p].tag = TagAt(processes.proc[p].pc, processes.proc[p].step_i)]
  /\ UNCHANGED singlevars

\* sync_global_devices returns in process p once every process has
\* reached the same barrier with the same tag; the processes that have
\* already returned from it are further on.
Return(p) ==
  /\ processes.proc[p].arrived
  /\ \A q \in Procs :
       \/ StmtIndex(processes.proc[q].pc) > StmtIndex(processes.proc[p].pc)
       \/ /\ processes.proc[q].pc = processes.proc[p].pc
          /\ processes.proc[q].arrived
          /\ processes.proc[q].tag = processes.proc[p].tag
  /\ processes' =
       [processes EXCEPT
          !.proc[p].arrived = FALSE,
          !.proc[p].tag = NoTag,
          !.proc[p].pc = AfterStmt(@)]
  /\ UNCHANGED singlevars

\* checkpointer.get_model_states and initial_global_step: step 0 on the
\* directory this job created, else the step of the newest checkpoint the
\* process finds in the directory an earlier job has left.
ProcGetModelStates(p) ==
  /\ processes.proc[p].pc = "get_model_states"
  /\ \E step \in 0..MaxInitStep :
       /\ processes.mkdirs > 0 \/ ~processes.checkpoint_dir => step = 0
       /\ processes' =
            [processes EXCEPT
               !.proc[p].pc = AfterStmt("get_model_states"),
               !.proc[p].step_i = step,
               !.proc[p].initial_step = step]
  /\ UNCHANGED singlevars

\* The first checkpointer.save_if_needed(step_i, ...) of the process
ProcSaveIfNeeded(p) ==
  /\ processes.proc[p].pc = "save_if_needed"
  /\ processes' =
       [processes EXCEPT
          !.proc[p].pc = AfterStmt("save_if_needed"),
          !.proc[p].save_if_needed_calls = @ + 1]
  /\ UNCHANGED singlevars

\* The first train_program.run of the process
ProcRun(p) ==
  /\ processes.proc[p].pc = "run"
  /\ processes' =
       [processes EXCEPT
          !.proc[p].pc = AfterStmt("run"),
          !.proc[p].train_runs = @ + 1,
          !.proc[p].step_i = @ + steps_per_run]
  /\ UNCHANGED singlevars

NextProcs ==
  \/ \E p \in Procs : Mkdir(p)
  \/ \E p \in Procs : Arrive(p)
  \/ \E p \in Procs : Return(p)
  \/ \E p \in Procs : ProcCreateManager(p)
  \/ \E p \in Procs : ProcGetModelStates(p)
  \/ \E p \in Procs : ProcSaveIfNeeded(p)
  \/ \E p \in Procs : ProcRun(p)

SpecProcs == InitProcs /\ [][NextProcs]_vars

\* ------------------------------------------------------------------------
\* _create_checkpointer over every save_keep_interval_duration
\* ------------------------------------------------------------------------

\* All strings over Chars of length at most n
RECURSIVE Strings(_)
Strings(n) ==
  IF n = 0 THEN {<<>>}
  ELSE LET shorter == Strings(n - 1)
       IN shorter \cup {Append(s, c) : s \in shorter, c \in Chars}

InitDur ==
  /\ variant \in {"pjit", "pmap"}
  /\ enable_checkpoint_saving = TRUE
  /\ pmap_use_tensorstore = FALSE
  /\ save_interval_steps = 1
  /\ num_train_steps = 0
  /\ eval_interval_steps = 0
  /\ eval_programs = FALSE
  /\ decode_input_p = FALSE
  /\ decode_interval_steps = 0
  /\ decode_use_ema_states = FALSE
  /\ has_ema = FALSE
  /\ early_stopping_fn = FALSE
  /\ exit_after_ondemand_checkpoint = FALSE
  /\ steps_per_run = 1
  /\ initial_global_step = None
  /\ entry_path = "spmd"
  /\ eval_names_unique = TRUE
  /\ decode_names_unique = TRUE
  /\ step_to_restore = None
  /\ save_max_to_keep = None
  /\ save_keep_interval_duration \in
       {NoDuration} \cup {Str(s) : s \in Strings(MaxLen)}
  /\ random_seed = 0
  /\ process_index = 0
  /\ experiment_train_program = (entry_path = "executor")
  /\ enable_auto_sharding = FALSE
  /\ checkpoint_type = "GDA"
  /\ async_checkpointer = FALSE
  /\ processes = NoProcesses
  /\ checkpoint_manager = EmptyManager
  /\ partitioned_train_state = NoState
  /\ pc = "create_checkpointer"
  /\ step_i = None
  /\ eval_metrics = FALSE
  /\ decode_metrics = FALSE
  /\ obs = InitObs

\* The members of CheckpointType
CheckpointTypes == {"UNSPECIFIED", "FLAX", "GDA", "PERSISTENCE"}

\* The two `raise ValueError` of _create_checkpointer: reached only when
\* `checkpointer is None`, that is with no async_checkpointer and a type
\* other than FLAX, and then for every type but GDA.
NoOrbaxCheckpointer ==
  /\ ~async_checkpointer
  /\ checkpoint_type # "FLAX"
  /\ checkpoint_type # "GDA"

\* _OrbaxPjitTrainingCheckpointer.__init__ raises on FLAX; the class is
\* constructed when task_p.model.ici_mesh_shape is not None.
PjitRejects == variant = "pjit" /\ checkpoint_type = "FLAX"

\* The training checkpointer class _create_checkpointer constructs
CheckpointerClass ==
  IF variant = "pjit" THEN "_OrbaxPjitTrainingCheckpointer"
  ELSE "_OrbaxPmapTrainingCheckpointer"

\* checkpointer = _create_checkpointer(task_p, job_log_dir, ...): the
\* duration is parsed first, then the Orbax checkpointer is chosen, the
\* manager is built and the training checkpointer constructed around it.
CreateCheckpointer ==
  /\ pc = "create_checkpointer"
  /\ LET keep_interval_timedelta == _parse_duration(save_keep_interval_duration)
     IN IF keep_interval_timedelta.raises
        THEN /\ Raise("parse")
             /\ UNCHANGED checkpoint_manager
        ELSE IF NoOrbaxCheckpointer \/ PjitRejects
        THEN /\ Raise("checkpoint_type")
             /\ UNCHANGED checkpoint_manager
        ELSE /\ checkpoint_manager' =
                  CreateCheckpointManager(checkpoint_manager.checkpoints,
                                          save_max_to_keep,
                                          keep_interval_timedelta.value)
             /\ pc' = "start"
             /\ obs' = [obs EXCEPT !.checkpointer_class = CheckpointerClass]
  /\ UNCHANGED <<cfgvars, step_i, partitioned_train_state, eval_metrics,
                 decode_metrics>>

NextDur == CreateCheckpointer

SpecDur == InitDur /\ [][NextDur]_vars

\* _create_checkpointer on every checkpoint type, with and without a
\* checkpointer supplied by the caller, for both kinds of model
InitType ==
  /\ variant \in {"pjit", "pmap"}
  /\ checkpoint_type \in CheckpointTypes
  /\ async_checkpointer \in BOOLEAN
  /\ save_keep_interval_duration \in {NoDuration} \cup {Str(s) : s \in Strings(1)}
  /\ save_max_to_keep \in {None} \cup 1..MaxToKeep
  /\ enable_checkpoint_saving \in BOOLEAN
  /\ pmap_use_tensorstore = FALSE
  /\ save_interval_steps = 1
  /\ num_train_steps = 0
  /\ eval_interval_steps = 0
  /\ eval_programs = FALSE
  /\ decode_input_p = FALSE
  /\ decode_interval_steps = 0
  /\ decode_use_ema_states = FALSE
  /\ has_ema = FALSE
  /\ early_stopping_fn = FALSE
  /\ exit_after_ondemand_checkpoint = FALSE
  /\ steps_per_run = 1
  /\ initial_global_step = None
  /\ entry_path = "spmd"
  /\ eval_names_unique = TRUE
  /\ decode_names_unique = TRUE
  /\ step_to_restore = None
  /\ random_seed = 0
  /\ process_index = 0
  /\ experiment_train_program = FALSE
  /\ enable_auto_sharding = FALSE
  /\ processes = NoProcesses
  /\ checkpoint_manager = EmptyManager
  /\ partitioned_train_state = NoState
  /\ pc = "create_checkpointer"
  /\ step_i = None
  /\ eval_metrics = FALSE
  /\ decode_metrics = FALSE
  /\ obs = InitObs

SpecType == InitType /\ [][NextDur]_vars

\* ------------------------------------------------------------------------
\* The training loop under every eval and decode schedule
\* ------------------------------------------------------------------------

InitSched ==
  /\ variant \in {"pjit", "pmap"}
  /\ enable_checkpoint_saving = TRUE
  /\ pmap_use_tensorstore = FALSE
  /\ save_interval_steps = 1
  /\ num_train_steps = MaxTrainSteps
  /\ eval_interval_steps \in 0..MaxInterval
  /\ eval_programs \in BOOLEAN
  /\ decode_input_p \in BOOLEAN
  /\ decode_interval_steps \in 0..MaxInterval
  /\ decode_use_ema_states \in BOOLEAN
  /\ has_ema \in BOOLEAN
  /\ early_stopping_fn = FALSE
  /\ exit_after_ondemand_checkpoint = FALSE
  /\ steps_per_run \in 1..MaxStepsPerRun
  /\ save_max_to_keep = None
  /\ \E dir \in InitialDirs :
       checkpoint_manager = CreateCheckpointManager(dir, save_max_to_keep, None)
  /\ partitioned_train_state = get_model_states(checkpoint_manager, 0)
  /\ initial_global_step = StepOf(partitioned_train_state)
  /\ pc = LoopHead
  /\ step_i = initial_global_step
  /\ DefaultEntry
  /\ eval_metrics = FALSE
  /\ decode_metrics = FALSE
  /\ obs = InitObs

SpecSched == InitSched /\ [][Next]_vars

\* ------------------------------------------------------------------------
\* Properties
\* ------------------------------------------------------------------------

Left == pc \in {"returned", "exited", "raised"}

CurrentArgs == <<step_i, partitioned_train_state>>

\* The single TrainState behind partitioned_train_state
HostState ==
  IF variant = "pmap" THEN partitioned_train_state[1]
  ELSE partitioned_train_state

\* C1: whenever train_program.run is about to execute, the save decision of
\* this iteration has already been made, on the step and state that run is
\* about to consume; run number n+1 is preceded by n+1 save_if_needed calls.
Thm_C1 ==
  pc = "run" =>
    /\ obs.decided = CurrentArgs
    /\ obs.save_if_needed_calls = obs.train_runs + 1

\* a second iteration is about to run its train step
Wit_C1 == pc = "run" /\ obs.train_runs >= 1

\* C2: once the loop has stopped (completed or early stop), save_final is
\* called exactly once, with the final step and state, and the function
\* returns only after a wait_until_finished that followed save_final.
Thm_C2 ==
  /\ obs.save_final_calls <= 1
  /\ obs.stop_reason \in {"completed", "early_stop"} =>
       \/ pc = "save_final" /\ obs.save_final_calls = 0
       \/ /\ pc \in {"wait_until_finished", "returned", "raised"}
          /\ obs.save_final_calls = 1
          /\ obs.save_final_args = CurrentArgs
  /\ pc = "returned" =>
       /\ obs.stop_reason \in {"completed", "early_stop"}
       /\ obs.wait_calls = 1
       /\ obs.wait_after_final

\* the function has returned after at least one train step
Wit_C2 == pc = "returned" /\ obs.train_runs >= 1 /\ obs.save_final_calls = 1

SaveFinalStep == pc = "save_final" /\ pc' = "wait_until_finished"

IssuesForcedSave ==
  /\ checkpoint_manager'.saves = checkpoint_manager.saves + 1
  /\ checkpoint_manager'.last_save =
       [step |-> step_i, state |-> HostState, force |-> TRUE]

IssuesNoSave == checkpoint_manager'.saves = checkpoint_manager.saves

NoCheckpointAtOrAfter ==
  \/ latest_step(checkpoint_manager) = None
  \/ latest_step(checkpoint_manager) < step_i

\* C3 as stated: save_final issues a forced save at `step` iff latest_step is
\* None or below `step`, for both checkpointers.
Orig_C3 == [][SaveFinalStep => (IssuesForcedSave <=> NoCheckpointAtOrAfter)]_vars

\* C3 amended: with enable_checkpoint_saving set, save_final issues a forced
\* save at `step` iff latest_step is None or below `step`; otherwise, and
\* always when saving is disabled, it issues no save.  Both checkpointers.
Thm_C3 ==
  [][SaveFinalStep =>
       /\ IssuesForcedSave <=> (enable_checkpoint_saving /\ NoCheckpointAtOrAfter)
       /\ ~IssuesForcedSave => IssuesNoSave]_vars

\* save_final has just issued its forced save of the final step
Wit_C3 ==
  /\ pc = "wait_until_finished"
  /\ checkpoint_manager.last_save =
       [step |-> step_i, state |-> HostState, force |-> TRUE]

Stopped == pc \in {"save_final", "wait_until_finished", "returned"}

UnitProgramNoPolicy == ~early_stopping_fn /\ steps_per_run = 1

FirstAnswerStop == obs.policy_consults >= 1 /\ obs.first_policy_answer

FinalSaveRecord ==
  [step |-> step_i, state |-> HostState, force |-> TRUE]

Orig_C6 ==
  (pc = "exited" /\ enable_checkpoint_saving) =>
    [step |-> step_i, state |-> HostState]
      \in checkpoint_manager.checkpoints

\* C7: reached_preemption is consulted only under
\* exit_after_ondemand_checkpoint; the preemption exit has status 1, comes
\* after a wait_until_finished that drained the manager, and happens before
\* the train program, eval, decode or the policy ran in that iteration; a
\* return (completed or early stop) has status 0.
Thm_C7 ==
  /\ ~exit_after_ondemand_checkpoint =>
       obs.preempt_consults = 0 /\ pc # "exited"
  /\ obs.preempt_consults <= obs.save_if_needed_calls
  /\ pc = "exited" =>
       /\ obs.exit_status = 1
       /\ obs.stop_reason = "preempted"
       /\ obs.wait_calls = 1
       /\ checkpoint_manager.inflight = {}
       /\ obs.decided = CurrentArgs
       /\ obs.train_runs = obs.save_if_needed_calls - 1
       /\ obs.policy_consults <= obs.train_runs
       /\ obs.save_final_calls = 0
  /\ pc = "returned" =>
       /\ obs.exit_status = 0
       /\ obs.stop_reason \in {"completed", "early_stop"}
  /\ obs.exit_status = 1 => pc = "exited"
  /\ obs.exit_status = 0 => pc = "returned"

\* preemption exit in a later iteration
Wit_C7 == pc = "exited" /\ obs.train_runs >= 1

\* C8 as stated: on every way out of the loop function wait_until_finished
\* has been invoked and no write is outstanding.
Orig_C8 ==
  Left => obs.wait_calls >= 1 /\ checkpoint_manager.inflight = {}

\* A failure that happened before the latest save_if_needed call and is
\* still not surfaced.
StaleError ==
  /\ checkpoint_manager.error
  /\ checkpoint_manager.err_call < obs.save_if_needed_calls

\* C9 as stated: a failed asynchronous save is surfaced by the poll of the
\* following loop iteration (or by wait_until_finished), for every
\* save_interval_steps: no failure outlives a later save_if_needed call.
Orig_C9 == ~StaleError

\* C9 amended: the failure is surfaced by the next check_for_errors() poll,
\* which save_if_needed makes only when should_save(step) holds, or by
\* wait_until_finished; an iteration whose step is not saved does not poll.
Thm_C9 ==
  /\ StaleError => ~should_save(obs.decided[1])
  /\ pc \in {"returned", "exited"} =>
       ~checkpoint_manager.error /\ checkpoint_manager.inflight = {}
  /\ obs.raised = "storage" => ~checkpoint_manager.error

\* a failure of an earlier iteration's save was raised by a later poll
Wit_C9 ==
  /\ pc = "raised" /\ obs.raised = "storage"
  /\ obs.wait_calls = 0 /\ obs.save_if_needed_calls >= 2

\* C10: at most one write of a manager is outstanding at any time, so writes
\* (of the same or of different steps) never overlap.
Thm_C10 == Cardinality(checkpoint_manager.inflight) <= 1

\* save_final's save was requested while save_if_needed's write was outstanding
Wit_C10 ==
  /\ pc = "wait_until_finished"
  /\ checkpoint_manager.last_save.force
  /\ checkpoint_manager.waits = 1
  /\ checkpoint_manager.inflight # {}

\* The newest checkpoint of a directory
NewestCheckpoint(dir) ==
  CHOOSE c \in dir : \A x \in dir : x.step <= c.step

\* partitioned_train_state holds exactly the TrainState ts: the state
\* itself under pjit, one equal copy per local device under pmap
Holds(partitioned, ts) ==
  IF variant = "pmap"
  THEN partitioned = [d \in 1..LocalDeviceCount |-> ts]
  ELSE partitioned = ts

\* C11: with enable_checkpoint_saving false no step of the job issues a save:
\* through every save_if_needed and save_final call, whatever the step and
\* the force flag, the manager receives no save, nothing is in flight and the
\* directory keeps its checkpoints; get_model_states still restores the
\* newest checkpoint of a non-empty directory.
Thm_C11 ==
  [][~enable_checkpoint_saving =>
       /\ checkpoint_manager'.saves = 0
       /\ checkpoint_manager'.inflight = {}
       /\ checkpoint_manager'.checkpoints = checkpoint_manager.checkpoints
       /\ (pc = "start" /\ checkpoint_manager.checkpoints # {}) =>
            Holds(partitioned_train_state',
                  NewestCheckpoint(checkpoint_manager.checkpoints).state)]_vars

\* C11 witness: a job with saving disabled restored from a non-empty
\* directory, trained, called save_if_needed on a step the interval selects
\* and save_final, and returned.
Wit_C11 ==
  /\ ~enable_checkpoint_saving
  /\ pc = "returned"
  /\ obs.restored_dir # {}
  /\ obs.train_runs > 0
  /\ obs.save_if_needed_calls > 1
  /\ obs.save_final_calls = 1
  /\ should_save(step_i)

\* C12: the eval programs run in the iteration whose train step produced
\* step s exactly when eval_interval_steps is non-zero, s is a multiple of it
\* and an eval program is registered; they are handed the eval view of the
\* state that train step produced, and step s; no other step of the loop
\* runs an eval program.
Thm_C12 ==
  [][IF pc = "eval" /\ pc' = "decode"
     THEN /\ step_i = obs.produced.step
          /\ (obs'.eval_runs = obs.eval_runs + 1) <=>
               /\ eval_programs
               /\ eval_interval_steps # 0
               /\ obs.produced.step % eval_interval_steps = 0
          /\ obs'.eval_runs # obs.eval_runs =>
               obs'.eval_args =
                 [step |-> obs.produced.step,
                  state |-> get_eval_train_state(obs.produced.state)]
          /\ obs'.eval_runs = obs.eval_runs => obs'.eval_args = obs.eval_args
     ELSE /\ obs'.eval_runs = obs.eval_runs
          /\ obs'.eval_args = obs.eval_args]_vars

\* C12 witness: with eval_interval_steps = 2 and one step per run, the
\* iteration that produced step 1 ran no eval and the one that produced
\* step 2 ran it on step 2.
Wit_C12 ==
  /\ eval_interval_steps = 2
  /\ steps_per_run = 1
  /\ eval_programs
  /\ obs.train_runs = 2
  /\ obs.eval_runs = 1
  /\ obs.eval_args.step = 2
  /\ pc = "decode"

\* C13: the iteration whose train step produced step s runs decode exactly
\* when decode inputs are configured, decode_interval_steps is non-zero and s
\* is a multiple of it; decode is handed the EMA extract of the state that
\* train step produced when decode_use_ema_states is set, and that state
\* itself otherwise.
Orig_C13 ==
  [][pc = "decode" /\ pc' # "decode" =>
       /\ (obs'.decode_runs = obs.decode_runs + 1) <=>
            /\ decode_input_p
            /\ decode_interval_steps # 0
            /\ obs.produced.step % decode_interval_steps = 0
       /\ obs'.decode_runs # obs.decode_runs =>
            obs'.decode_args =
              [step |-> obs.produced.step,
               state |-> IF decode_use_ema_states
                         THEN extract_ema(obs.produced.state)
                         ELSE obs.produced.state]]_vars

\* C14: the error for decode_use_ema_states on a task without EMA is raised
\* at setup, before any train step has run and before any save was issued.
Orig_C14 ==
  obs.raised = "config" =>
    /\ obs.train_runs = 0
    /\ checkpoint_manager.saves = 0

\* C15: on every entry path a duplicate eval or decode input name stops the
\* run during setup: the loop is never entered, so no save_if_needed call and
\* no train step happens.
Orig_C15 ==
  (~eval_names_unique \/ ~decode_names_unique) =>
    /\ pc \in SetupPcs \cup {"raised"}
    /\ obs.save_if_needed_calls = 0
    /\ obs.train_runs = 0

StepMismatch ==
  step_to_restore # None /\ step_to_restore # initial_global_step

\* C16: with a step_to_restore that differs from the step of the restored
\* TrainState the run never gets past the comparison: no program is set up,
\* no save is issued and no train step runs.  A run that is in the loop has
\* no step_to_restore or one equal to the state's step, and the loop starts
\* at the state's own step.
Thm_C16 ==
  /\ StepMismatch =>
       /\ pc \in {"partition_decode", "check_step_to_restore", "raised"}
       /\ obs.program_setups = 0
       /\ obs.save_if_needed_calls = 0
       /\ checkpoint_manager.saves = 0
       /\ obs.train_runs = 0
  /\ (pc = LoopHead /\ obs.save_if_needed_calls = 0) =>
       /\ step_to_restore \in {None, HostState.step}
       /\ step_i = HostState.step

\* C16 witness: the executor's checkpointer reported a step_to_restore other
\* than the restored state's step and the comparison ended the run.
Wit_C16 ==
  /\ StepMismatch
  /\ pc = "raised"
  /\ obs.raised = "step_mismatch"

\* C17: get_model_states returns the TrainState of the newest checkpoint
\* when the directory holds one, and the TrainState initialized from the
\* init key otherwise: the result is a function of the directory contents
\* and the init key alone.
Thm_C17 ==
  [][pc = "start" /\ pc' # "start" =>
       LET dir == checkpoint_manager.checkpoints
       IN IF dir # {}
          THEN Holds(partitioned_train_state', NewestCheckpoint(dir).state)
          ELSE Holds(partitioned_train_state',
                     InitializeModelState(obs'.init_key))]_vars

\* C17 witness: get_model_states ran on a directory with two checkpoints
\* and the job starts at the step of the newer one.
Wit_C17 ==
  /\ pc = LoopHead
  /\ obs.save_if_needed_calls = 0
  /\ Cardinality(obs.restored_dir) = 2
  /\ step_i = NewestCheckpoint(obs.restored_dir).step
  /\ HostState = NewestCheckpoint(obs.restored_dir).state

\* The job has just come out of get_model_states
JustRestored == pc = LoopHead /\ obs.save_if_needed_calls = 0

Thm_C20 ==
  LET m == checkpoint_manager
      steps == {c.step : c \in m.checkpoints}
      k == save_max_to_keep
  IN (k # None /\ Cardinality(m.committed) > k) =>
       /\ steps \ m.preserved = Newest(m.committed, k) \ m.preserved
       /\ m.preserved \subseteq steps
       /\ Newest(m.committed, k) \subseteq steps

\* C20 witness: max_to_keep = 2, three checkpoints were committed, the two
\* newest remain together with the oldest, which keep_time_interval preserved.
Wit_C20 ==
  /\ save_max_to_keep = 2
  /\ checkpoint_manager.max_to_keep = 2
  /\ checkpoint_manager.committed = {0, 1, 2}
  /\ checkpoint_manager.preserved = {0}
  /\ {c.step : c \in checkpoint_manager.checkpoints} = {0, 1, 2}
  /\ checkpoint_manager.inflight = {}

\* The string is n, or n followed by the one unit character
IsNumberWith(chars, suffix) ==
  LET n == Len(chars) - Len(suffix)
  IN /\ n > 0
     /\ SubSeq(chars, n + 1, Len(chars)) = suffix
     /\ \A i \in 1..n : IsDigit(chars[i])

NumberOf(chars, suffix) == IntOf(SubSeq(chars, 1, Len(chars) - Len(suffix)))

\* _create_checkpointer has run on save_keep_interval_duration
Created == pc # "create_checkpointer"

WellFormed(chars) ==
  \E suffix \in {<<>>, <<"s">>, <<"m">>, <<"h">>, <<"d">>} :
    IsNumberWith(chars, suffix)

\* C22: every non-empty string outside the grammar is rejected with a
\* ValueError and yields no duration.
Orig_C22 ==
  LET d == save_keep_interval_duration
  IN (Created /\ ~d.none /\ d.chars # <<>> /\ ~WellFormed(d.chars)) =>
       pc = "raised" /\ obs.raised = "parse"

\* The run has derived all its keys and entered the loop
KeysDerived == pc \notin {"start", "split_keys"} \cup SetupPcs

Orig_C24 ==
  (entry_path \in {"pmap", "spmd"} /\ obs.train_program # "none") =>
    /\ experiment_train_program => obs.train_program = "experiment"
    /\ (obs.auto_sharding_mode = "TRAIN") = enable_auto_sharding

\* C25: once the run has left, every summary writer that was opened has been
\* closed, in the reverse of the order of opening.
Orig_C25 ==
  Left =>
    /\ obs.exit_callbacks = <<>>
    /\ obs.closed_writers = Reverse(obs.opened_writers)

\* C26: every step of the loop that changes step_i or partitioned_train_state
\* is the step that takes the output of train_program.run; the save, the
\* preemption check, should_run, eval, decode and the early-stopping check
\* leave both as they are.
Thm_C26 ==
  [][(step_i' # step_i \/ partitioned_train_state' # partitioned_train_state)
       => /\ pc = "run"
          /\ obs'.train_runs = obs.train_runs + 1
          /\ step_i' = obs'.produced.step
          /\ partitioned_train_state' = obs'.produced.state]_vars

\* C26 witness: after one train step, a save, an eval and a decode on the EMA
\* states, the loop still holds the step and state that run produced.
Wit_C26 ==
  /\ pc = "early_stop"
  /\ obs.train_runs = 1
  /\ obs.save_if_needed_calls >= 1
  /\ obs.eval_runs >= 1
  /\ obs.decode_runs >= 1
  /\ decode_use_ema_states
  /\ step_i = obs.produced.step
  /\ partitioned_train_state = obs.produced.state

\* No train step, eval, decode or early-stopping consultation in this step
NoProgramCall ==
  /\ obs'.train_runs = obs.train_runs
  /\ obs'.eval_runs = obs.eval_runs
  /\ obs'.decode_runs = obs.decode_runs
  /\ obs'.policy_consults = obs.policy_consults

\* C27: when should_run answers no, the loop goes to save_final and neither
\* that step nor any later one runs a train step, an eval, a decode or the
\* early-stopping check; a run that starts at or past the horizon never runs
\* a train step.
Thm_C27 ==
  [][/\ (pc = "should_run" /\ pc' # pc
          /\ ~should_run(partitioned_train_state, step_i))
          => (pc' = "save_final" /\ NoProgramCall)
     /\ obs.stop_reason = "completed"
          => (NoProgramCall
              /\ pc' \in {"save_final", "wait_until_finished", "returned",
                          "raised"})
     /\ initial_global_step >= num_train_steps => obs'.train_runs = 0]_vars

\* C27 witness: a run restored at the horizon, with eval due at every step and
\* an early-stopping policy, is at the final save after one save_if_needed and
\* no program call.
Wit_C27 ==
  /\ pc = "save_final"
  /\ obs.stop_reason = "completed"
  /\ initial_global_step >= num_train_steps
  /\ num_train_steps > 0
  /\ eval_interval_steps = 1
  /\ early_stopping_fn
  /\ obs.save_if_needed_calls = 1
  /\ obs.train_runs = 0
  /\ obs.eval_runs = 0
  /\ obs.policy_consults = 0

\* The TrainState that a save of partitioned hands to the manager
Stored(partitioned) ==
  IF variant = "pmap" THEN partitioned[1] ELSE partitioned

\* C28: a write in flight carries the step and state that were handed to
\* the checkpointer when the save was issued, however far the loop has moved
\* on since, and a checkpoint that appears is the step and state of the write
\* that was in flight.
Thm_C28 ==
  [][/\ \A w \in checkpoint_manager'.inflight :
          /\ w.step = obs'.handed.step
          /\ w.state = Stored(obs'.handed.partitioned)
          /\ w.state.step = w.step
     /\ \A c \in checkpoint_manager'.checkpoints
                   \ checkpoint_manager.checkpoints :
          \E w \in checkpoint_manager.inflight :
            c = [step |-> w.step, state |-> w.state]]_vars

\* C28 witness: the write of step N is still in flight after two train steps
\* have changed the loop's state.
Wit_C28 ==
  /\ obs.train_runs = 2
  /\ \E w \in checkpoint_manager.inflight :
       /\ w.step < step_i
       /\ w.state # HostState
       /\ w.state = Stored(obs.handed.partitioned)

\* Process q has reached the barrier at stmt, or has passed it
Reached(q, stmt) ==
  LET at == processes.proc[q].pc
  IN \/ at = stmt /\ processes.proc[q].arrived
     \/ StmtIndex(at) > StmtIndex(stmt)

\* Process p has called save_if_needed or run its first train step
Started(p) ==
  \/ processes.proc[p].save_if_needed_calls > 0
  \/ processes.proc[p].train_runs > 0

\* C29: when a process has called save_if_needed or run a train step,
\* every process has reached the start-of-loop barrier, and all of them start
\* from the same step.
Thm_C29 ==
  \A p \in Procs :
    Started(p) =>
      \A q \in Procs :
        /\ Reached(q, "start_sync")
        /\ processes.proc[q].initial_step = processes.proc[p].initial_step

\* C29 witness: every process has run its first train step from the step
\* MaxInitStep that all of them restored.
Wit_C29 ==
  \A p \in Procs :
    /\ processes.proc[p].train_runs = 1
    /\ processes.proc[p].initial_step = MaxInitStep

\* C30 as stated: the directory is created only after every process has
\* reached the barrier that guards it.
Orig_C30 ==
  processes.mkdirs > 0 => \A q \in Procs : Reached(q, "makedirs_sync")

\* C30: process 0 creates the missing directory before it reaches the
\* barrier, and a process that is past the barrier finds the directory
\* present and every process arrived.
Thm_C30 ==
  /\ processes.mkdirs <= 1
  /\ \A p \in Procs :
       (Reached(p, "makedirs_sync") /\ p = 0) =>
         processes.checkpoint_dir
  /\ \A p \in Procs :
       (Reached(p, "makedirs_sync") /\ processes.proc[p].pc # "makedirs_sync")
         => /\ processes.checkpoint_dir
            /\ \A q \in Procs : Reached(q, "makedirs_sync")

\* C30 witness: a process other than the creator is past the barrier on the
\* directory that process 0 created.
Wit_C30 ==
  /\ processes.mkdirs = 1
  /\ processes.checkpoint_dir
  /\ processes.proc[1].pc = "create_manager"

\* Process p has returned from _make_checkpoint_dir
ReturnedFromMakeDir(p) ==
  StmtIndex(processes.proc[p].pc) > StmtIndex("makedirs_sync")

\* C31: in every interleaving, a process that has returned from
\* _make_checkpoint_dir finds the directory present; no process other than
\* process 0 has created it; and every checkpoint manager was built on a
\* present directory.
Thm_C31 ==
  /\ \A p \in Procs : ReturnedFromMakeDir(p) => processes.checkpoint_dir
  /\ processes.creators \subseteq {0}
  /\ \A p \in Procs : processes.proc[p].manager_dir # "missing"

\* C31 witness: the last process has built its manager on the directory that
\* process 0 created while process 0 is still waiting in the barrier.
Wit_C31 ==
  /\ processes.creators = {0}
  /\ processes.proc[NumProcesses - 1].manager_dir = "present"
  /\ processes.proc[0].pc = "makedirs_sync"

\* The seeds of the run are one key per local device
IsPerDevice == entry_path = "pmap" \/ variant = "pmap"

\* The keys a seed handed to a program consists of
KeysOf(seed) ==
  IF seed = NoKey THEN {}
  ELSE IF IsPerDevice THEN {seed[d] : d \in 1..LocalDeviceCount}
  ELSE {seed}

\* The number of splits and fold_ins on the derivation path of a key
Derivations(key) == Len(key) - 1

\* The derivations between the root key and a seed of the run: the pmap
\* entry point folds in the process index, the three-way split, the
\* per-device split; the decode seed has the two-way split in addition.
SeedDepth ==
  (IF variant = "pmap" THEN 1 ELSE 0) + 2 + (IF IsPerDevice THEN 1 ELSE 0)

\* C32: the train, eval and decode keys all derive from PRNGKey(random_seed),
\* each by the splits of the setup and no more (the loop derives nothing,
\* however many steps and eval or decode rounds it runs), their derivation
\* paths are pairwise distinct and distinct from the key carried forward, and
\* no step of the loop changes any of them.
Thm_C32 ==
  [][/\ KeysDerived' =>
          LET train == KeysOf(obs'.train_prng_seed)
              eval == KeysOf(obs'.eval_prng_seed)
              decode == KeysOf(obs'.decode_prng_seed)
              carried == {obs'.prng_key}
          IN /\ \A key \in train \cup eval \cup decode \cup carried :
                  key[1] = PRNGKey(random_seed)[1]
             /\ train # {} /\ eval # {}
             /\ (decode # {}) = decode_input_p
             /\ \A key \in train \cup eval : Derivations(key) = SeedDepth
             /\ \A key \in decode : Derivations(key) = SeedDepth + 1
             /\ train \cap eval = {}
             /\ train \cap decode = {}
             /\ eval \cap decode = {}
             /\ carried \cap (train \cup eval \cup decode) = {}
     /\ (KeysDerived /\ pc' # "start") =>
          /\ obs'.train_prng_seed = obs.train_prng_seed
          /\ obs'.eval_prng_seed = obs.eval_prng_seed
          /\ obs'.decode_prng_seed = obs.decode_prng_seed
          /\ obs'.prng_key = obs.prng_key]_vars

\* C32 witness: a pmap run with decode inputs has returned after
\* MaxTrainSteps steps and as many decode rounds, with a train, an eval and a
\* decode key per device.
Wit_C32 ==
  /\ pc = "returned"
  /\ entry_path = "pmap"
  /\ decode_input_p
  /\ obs.train_runs = MaxTrainSteps
  /\ obs.decode_runs >= MaxTrainSteps
  /\ Cardinality(KeysOf(obs.train_prng_seed) \cup KeysOf(obs.eval_prng_seed)
                 \cup KeysOf(obs.decode_prng_seed)) = 3 * LocalDeviceCount

\* Key a is a key that key b was derived from
IsParent(a, b) == Len(a) < Len(b) /\ SubSeq(b, 1, Len(a)) = a

\* The keys the run has handed to a consumer, and the keys it holds
UsedKeys ==
  {key \in {obs.key_uses.partitioner, obs.key_uses.get_model_states} :
     key # NoKey}
  \cup KeysOf(obs.key_uses.train_program_eval)
  \cup KeysOf(obs.key_uses.eval_programs)
  \cup KeysOf(obs.train_prng_seed)
  \cup KeysOf(obs.decode_prng_seed)

\* C33: no key serves two purposes: the key handed to the partitioner is not
\* the key handed to state initialization, the eval key handed to the train
\* program is not the key handed to the test eval programs, and no key that
\* was handed to a consumer is the parent of a key of the run.
Orig_C33 ==
  /\ obs.key_uses.get_model_states # NoKey =>
       obs.key_uses.partitioner # obs.key_uses.get_model_states
  /\ obs.key_uses.eval_programs # NoKey =>
       KeysOf(obs.key_uses.eval_programs)
         \cap KeysOf(obs.key_uses.train_program_eval) = {}
  /\ \A used \in UsedKeys :
       \A key \in UsedKeys \cup {obs.prng_key} : ~IsParent(used, key)

\* What the manager was asked to do, and what it will answer next: the
\* number of saves, the step and force flag of the last one, the steps it
\* holds or is writing, and its deferred error
Contract(m) ==
  [saves |-> m.saves,
   step |-> m.last_save.step,
   force |-> m.last_save.force,
   known |-> KnownSteps(m),
   inflight |-> {w.step : w \in m.inflight},
   error |-> m.error]

\* On the manager and step of the current state, the pjit checkpointer given
\* the state and the pmap checkpointer given its replicas issue the same
\* save, or none, from save_if_needed and from save_final, and poll
\* check_for_errors alike.
SameContract ==
  (pc \in {"save_if_needed", "save_final"}) =>
    \A ok \in BOOLEAN :
      LET m == checkpoint_manager
          state == HostState
          replicas == replicate_model_state(HostState)
      IN /\ Contract(PjitSaveIfNeeded(m, step_i, state, ok))
              = Contract(PmapSaveIfNeeded(m, step_i, replicas, ok))
         /\ Contract(PjitSaveFinal(m, step_i, state, ok))
              = Contract(PmapSaveFinal(m, step_i, replicas, ok))
         /\ PjitPollsErrors(step_i) = PmapPollsErrors(step_i)

\* C34: the pmap and the pjit checkpointer make the same manager calls: at
\* every save_if_needed and save_final of a run both would issue the same
\* save (step and force flag) or none and poll for errors alike, so their
\* sequences of manager saves agree; and the variant of a run never changes.
Thm_C34 ==
  [][SameContract' /\ variant' = variant]_vars

\* C34 witness: save_final of a pmap run is about to force a save of the last
\* step, after save_if_needed calls that saved and calls that did not.
Wit_C34 ==
  /\ pc = "save_final"
  /\ variant = "pmap"
  /\ enable_checkpoint_saving
  /\ save_interval_steps = 2
  /\ obs.save_if_needed_calls >= 2
  /\ checkpoint_manager.saves >= 1
  /\ latest_step(checkpoint_manager) < step_i

\* The checkpoint representations the claim calls unsupported
UnsupportedRepresentation ==
  \/ checkpoint_type \notin {"FLAX", "GDA", "PERSISTENCE"}
  \/ checkpoint_type = "PERSISTENCE" /\ ~async_checkpointer
  \/ checkpoint_type = "FLAX" /\ variant = "pjit"

\* C35: once _create_checkpointer has run on an unsupported checkpoint
\* representation it has raised and constructed no training checkpointer,
\* whether or not the caller supplied a checkpointer.
Orig_C35 ==
  (pc # "create_checkpointer" /\ UnsupportedRepresentation) =>
    /\ pc = "raised"
    /\ obs.checkpointer_class = "none"

\* The step changes the number of saves the manager was asked for
SaveIssued == checkpoint_manager'.saves > checkpoint_manager.saves

\* C36: every save the loop issues is for a step at which no checkpoint
\* exists or is being written, and for a later step than the save before it,
\* so no step is saved twice in a run; this covers the first iteration of a
\* resumed run and save_final after the save_if_needed of the last iteration.
Orig_C36 ==
  [][SaveIssued =>
       /\ checkpoint_manager'.last_save.step \notin KnownSteps(checkpoint_manager)
       /\ checkpoint_manager.last_save.step # None =>
            checkpoint_manager'.last_save.step
              > checkpoint_manager.last_save.step]_vars

\* The step of the newest checkpoint of the directory, None when it is empty
NewestStep(m) ==
  IF m.checkpoints = {} THEN None
  ELSE SetMax({c.step : c \in m.checkpoints})

\* C37: a run with saving enabled that returns (no save failed, or
\* wait_until_finished would have raised) leaves no write outstanding and the
\* newest checkpoint of the directory is that of the loop's final step,
\* whatever the initial step, num_train_steps, save_interval_steps and the
\* reason for stopping.
Thm_C37 ==
  (pc = "returned" /\ enable_checkpoint_saving) =>
    /\ checkpoint_manager.inflight = {}
    /\ ~checkpoint_manager.error
    /\ NewestStep(checkpoint_manager) = step_i

\* C37 witness: a resumed run with save_interval_steps = 2 returned at an odd
\* step after an early stop; its final step was saved by save_final.
Wit_C37 ==
  /\ pc = "returned"
  /\ enable_checkpoint_saving
  /\ save_interval_steps = 2
  /\ initial_global_step > 0
  /\ step_i % 2 = 1
  /\ obs.stop_reason = "early_stop"
  /\ checkpoint_manager.last_save.force
  /\ NewestStep(checkpoint_manager) = step_i

\* The multiples of `interval` from the initial step to the current step
MultiplesInRun(interval) ==
  {M \in initial_global_step..step_i : interval # 0 /\ M % interval = 0}

\* C38: when a run with saving enabled has returned, save_if_needed issued a
\* save at every multiple of save_interval_steps between the initial and the
\* final step, whatever the step increment of one train invocation; the eval
\* programs and the decode ran at every multiple of their intervals.
Orig_C38 ==
  pc = "returned" =>
    /\ enable_checkpoint_saving =>
         MultiplesInRun(save_interval_steps) \subseteq obs.saved_steps
    /\ eval_programs =>
         MultiplesInRun(eval_interval_steps) \subseteq obs.eval_steps
    /\ decode_input_p =>
         MultiplesInRun(decode_interval_steps) \subseteq obs.decode_steps

\* C39: with a train program that advances the step on every run and stops
\* running at num_train_steps, every run in which no save, eval or decode
\* raises eventually calls save_final, waits and returns.
Orig_C39 ==
  <>(\/ pc = "raised"
     \/ /\ pc = "returned"
        /\ obs.stop_reason \in {"completed", "early_stop"}
        /\ obs.save_final_calls = 1
        /\ obs.wait_after_final)

====
